---------------------------- MODULE Spec2Model ----------------------------
(***************************************************************************)
(* State-machine model of the vidyalog repository layer: the in-memory,    *)
(* document-store (TinyDB), relational (SmolORM) and per-record-file       *)
(* backends, the filter evaluator and the TinyDB query compiler.           *)
(*                                                                         *)
(* One call of the driver is applied to every backend, so that the         *)
(* datasets stay reproducible across backends; each backend keeps its own  *)
(* state and its own outcome of the call.                                  *)
(***************************************************************************)
EXTENDS Integers, Sequences, FiniteSets, TLC

(***************************************************************************)
(* Bounds of the model.                                                    *)
(***************************************************************************)
\* mutating calls (create / update / delete / insert) made in one behaviour
MaxOps == 3
\* largest limit / offset argument tried by filter calls
MaxLimit == 2
\* nesting depth of atomic() scopes
MaxAtomicDepth == 1

(***************************************************************************)
(* Python values.  Every value has the same shape: a type tag, an integer  *)
(* payload, a character sequence (strings) and an element sequence (lists, *)
(* whose elements are scalars without the element sequence).               *)
(*   "null" None, "int" int, "str" str, "dt" datetime, "list" list,        *)
(*   "enum" a member of an Enum class                                      *)
(***************************************************************************)
Null == [t |-> "null", n |-> 0, s |-> <<>>, l |-> <<>>]
IntV(i) == [t |-> "int", n |-> i, s |-> <<>>, l |-> <<>>]
StrV(x) == [t |-> "str", n |-> 0, s |-> x, l |-> <<>>]
DtV(i) == [t |-> "dt", n |-> i, s |-> <<>>, l |-> <<>>]
EnumV(x) == [t |-> "enum", n |-> 0, s |-> x, l |-> <<>>]
Elem(v) == [t |-> v.t, n |-> v.n, s |-> v.s]
Unelem(e) == [t |-> e.t, n |-> e.n, s |-> e.s, l |-> <<>>]
ListV(vs) == [t |-> "list", n |-> 0, s |-> <<>>, l |-> [i \in 1..Len(vs) |-> Elem(vs[i])]]

\* outcome of a Python expression or call: a value, or a raised exception
Ret(v) == [exc |-> "none", v |-> v]
Raise(e) == [exc |-> e, v |-> FALSE]
Raised(r) == r.exc # "none"

(***************************************************************************)
(* str methods                                                             *)
(***************************************************************************)
\* str.lower() on one character
LowerChar(c) ==
  CASE c = "A" -> "a"
    [] c = "B" -> "b"
    [] c = "N" -> "n"
    [] c = "T" -> "t"
    [] OTHER -> c

\* str.lower()
Lower(x) == [i \in 1..Len(x) |-> LowerChar(x[i])]

\* str.startswith / str.endswith / substring test (x in y on two str)
StartsWith(x, p) == Len(p) <= Len(x) /\ SubSeq(x, 1, Len(p)) = p
EndsWith(x, p) == Len(p) <= Len(x) /\ SubSeq(x, Len(x) - Len(p) + 1, Len(x)) = p
Substring(p, x) == \E i \in 0..(Len(x) - Len(p)) : SubSeq(x, i + 1, i + Len(p)) = p

Digit(d) == <<"0", "1", "2", "3", "4", "5", "6", "7", "8", "9">>[d + 1]

\* str(int) for a natural number
RECURSIVE IntToStr(_)
IntToStr(i) == IF i < 10 THEN <<Digit(i)>> ELSE IntToStr(i \div 10) \o <<Digit(i % 10)>>

\* datetime.isoformat(): the instant i rendered as text (the model's
\* instants are the clock ticks; the rendering is "T" followed by the tick)
Isoformat(i) == <<"T">> \o IntToStr(i)

DigitOf(c) == CHOOSE d \in 0..9 : Digit(d) = c
IsDigits(x) == Len(x) > 0 /\ \A i \in 1..Len(x) : \E d \in 0..9 : Digit(d) = x[i]

RECURSIVE StrToInt(_)
StrToInt(x) ==
  IF Len(x) = 1 THEN DigitOf(x[1])
  ELSE 10 * StrToInt(SubSeq(x, 1, Len(x) - 1)) + DigitOf(x[Len(x)])

\* datetime.fromisoformat(): raises ValueError on text that is no instant
FromIsoformat(x) ==
  IF Len(x) >= 2 /\ x[1] = "T" /\ IsDigits(Tail(x))
  THEN Ret(DtV(StrToInt(Tail(x))))
  ELSE Raise("ValueError")

\* repr() of a list element and str() of a value
ReprElem(e) ==
  CASE e.t = "str" -> <<"'">> \o e.s \o <<"'">>
    [] e.t = "int" -> IntToStr(e.n)
    [] e.t = "dt" -> Isoformat(e.n)
    [] OTHER -> <<"N", "o", "n", "e">>

RECURSIVE JoinRepr(_)
JoinRepr(es) ==
  IF es = <<>> THEN <<>>
  ELSE IF Len(es) = 1 THEN ReprElem(es[1])
  ELSE ReprElem(es[1]) \o <<",", " ">> \o JoinRepr(Tail(es))

Str(v) ==
  CASE v.t = "str" -> v.s
    [] v.t = "int" -> IntToStr(v.n)
    [] v.t = "dt" -> Isoformat(v.n)
    [] v.t = "list" -> <<"[">> \o JoinRepr(v.l) \o <<"]">>
    [] OTHER -> <<"N", "o", "n", "e">>

(***************************************************************************)
(* Python comparison operators                                             *)
(***************************************************************************)
\* a == b : values of different types are never equal
PyEq(a, b) == a.t = b.t /\ a = b

\* lexicographic order on character sequences, by the rank of a character
Rank(c) ==
  CASE c \in {"0", "1", "2", "3", "4", "5", "6", "7", "8", "9"} -> DigitOf(c)
    [] c = "A" -> 20
    [] c = "B" -> 21
    [] c = "N" -> 22
    [] c = "T" -> 23
    [] c = "a" -> 40
    [] c = "b" -> 41
    [] c = "n" -> 42
    [] c = "t" -> 43
    [] OTHER -> 30

RECURSIVE SeqLess(_, _)
SeqLess(x, y) ==
  IF y = <<>> THEN FALSE
  ELSE IF x = <<>> THEN TRUE
  ELSE IF Rank(x[1]) # Rank(y[1]) THEN Rank(x[1]) < Rank(y[1])
  ELSE SeqLess(Tail(x), Tail(y))

\* a < b : defined on two int, two str, two datetime; TypeError on None and
\* on operands of different types (the filter values enumerated below never
\* order two lists)
PyLt(a, b) ==
  IF a.t # b.t \/ a.t \in {"null", "list"} THEN Raise("TypeError")
  ELSE IF a.t = "str" THEN Ret(SeqLess(a.s, b.s))
  ELSE Ret(a.n < b.n)

PyLe(a, b) ==
  IF Raised(PyLt(a, b)) THEN Raise("TypeError") ELSE Ret(PyLt(a, b).v \/ a = b)

\* x in c : substring on str (left operand must be str), membership on list,
\* TypeError when c is not a container
PyIn(x, c) ==
  CASE c.t = "str" -> IF x.t = "str" THEN Ret(Substring(x.s, c.s)) ELSE Raise("TypeError")
    [] c.t = "list" -> Ret(\E i \in 1..Len(c.l) : PyEq(Unelem(c.l[i]), x))
    [] OTHER -> Raise("TypeError")

PyNot(r) == IF Raised(r) THEN r ELSE Ret(~r.v)


(***************************************************************************)
(* Entities and filter specifications                                      *)
(***************************************************************************)
\* getattr(entity, column, None) on an entity held as attribute -> value
Getattr(entity, column) == IF column \in DOMAIN entity THEN entity[column] ELSE Null

\* dict.get / {**a, **b}: b's keys override a's
Merge(a, b) == [k \in DOMAIN a \cup DOMAIN b |-> IF k \in DOMAIN b THEN b[k] ELSE a[k]]

\* FilterOp, the closed enumeration of abstract_repository.py
FilterOp == {"EQ", "NEQ", "LT", "LTE", "GT", "GTE", "IN", "NOT_IN", "CONTAINS",
             "ICONTAINS", "STARTS_WITH", "ISTARTS_WITH", "ENDS_WITH", "IENDS_WITH"}

\* A specification is either a list of FilterQuery (form "list": column, op in
\* FilterOp or an unknown member, value) or a flat mapping (form "dict": key
\* attr__op split into column and op token, value).
FilterQuery(column, op, value) == [column |-> column, op |-> op, value |-> value]
ListSpec(preds) == [form |-> "list", preds |-> preds]
DictSpec(preds) == [form |-> "dict", preds |-> preds]

(***************************************************************************)
(* FilterExpressionEvaluator                                               *)
(***************************************************************************)
_compare(actual, expected, op) ==
  CASE op = "EQ" -> Ret(PyEq(actual, expected))
    [] op = "NEQ" -> Ret(~PyEq(actual, expected))
    [] op = "LT" -> PyLt(actual, expected)
    [] op = "LTE" -> PyLe(actual, expected)
    [] op = "GT" -> PyLt(expected, actual)
    [] op = "GTE" -> PyLe(expected, actual)
    [] op = "CONTAINS" -> PyIn(expected, actual)
    [] op = "ICONTAINS" -> Ret(Substring(Lower(Str(expected)), Lower(Str(actual))))
    [] op = "STARTS_WITH" -> Ret(StartsWith(Str(actual), Str(expected)))
    [] op = "ISTARTS_WITH" -> Ret(StartsWith(Lower(Str(actual)), Lower(Str(expected))))
    [] op = "ENDS_WITH" -> Ret(EndsWith(Str(actual), Str(expected)))
    [] op = "IENDS_WITH" -> Ret(EndsWith(Lower(Str(actual)), Lower(Str(expected))))
    [] op = "IN" -> PyIn(actual, expected)
    [] op = "NOT_IN" -> PyNot(PyIn(actual, expected))
    [] OTHER -> Raise("ValueError")

\* one turn of a conjunction: the exception of c, False when c is false,
\* else what the remaining predicates give
AndThen(c, rest) == IF Raised(c) THEN c ELSE IF ~c.v THEN Ret(FALSE) ELSE rest

\* the loop of evaluate over a list of FilterQuery, from predicate i on
RECURSIVE EvaluateFrom(_, _, _)
EvaluateFrom(entity, preds, i) ==
  IF i > Len(preds) THEN Ret(TRUE)
  ELSE AndThen(_compare(Getattr(entity, preds[i].column), preds[i].value, preds[i].op),
               EvaluateFrom(entity, preds, i + 1))

\* evaluate(entity, filters): iterating a dict yields its str keys, and
\* f.column on a str raises AttributeError
evaluate(entity, filters) ==
  IF filters.form = "dict"
  THEN IF filters.preds = <<>> THEN Ret(TRUE) ELSE Raise("AttributeError")
  ELSE EvaluateFrom(entity, filters.preds, 1)

\* one turn of a comprehension: e is kept when its test m is true; the
\* first exception raised ends it
Keep(m, e, rest) ==
  IF Raised(m) THEN m
  ELSE IF Raised(rest) THEN rest
  ELSE Ret(IF m.v THEN <<e>> \o rest.v ELSE rest.v)

\* [e for e in entities if evaluate(e, filters)]: the matching entities in
\* order, or the first exception raised
RECURSIVE MatchAll(_, _)
MatchAll(entities, filters) ==
  IF entities = <<>> THEN Ret(<<>>)
  ELSE Keep(evaluate(entities[1], filters), entities[1], MatchAll(Tail(entities), filters))


\* the call the SQL compiler makes on col(column): the method and its
\* argument ("==" and the like stand for the overloaded operator)
SqlExpr(column, method, arg) == [column |-> column, method |-> method, arg |-> arg]

\* value is None or value == "NULL" or value == "null"
IsNullWord(value) ==
  value.t = "null" \/ value = StrV(<<"N", "U", "L", "L">>) \/ value = StrV(<<"n", "u", "l", "l">>)

filter_query_to_sql_query(filter) ==
  LET column == filter.column
      op == filter.op
      value == filter.value
  IN CASE op = "CONTAINS" -> Ret(SqlExpr(column, "contains", StrV(Str(value))))
       [] op = "ICONTAINS" -> Ret(SqlExpr(column, "contains", StrV(Lower(Str(value)))))
       [] op = "STARTS_WITH" -> Ret(SqlExpr(column, "startswith", value))
       [] op = "ISTARTS_WITH" -> Ret(SqlExpr(column, "startswith", StrV(Lower(Str(value)))))
       [] op = "ENDS_WITH" -> Ret(SqlExpr(column, "endswith", value))
       [] op = "IENDS_WITH" -> Ret(SqlExpr(column, "endswith", StrV(Lower(Str(value)))))
       [] op = "IN" -> Ret(SqlExpr(column, "in_", value))
       [] op = "NOT_IN" -> Ret(SqlExpr(column, "not_in_", value))
       [] op = "EQ" -> IF IsNullWord(value) THEN Ret(SqlExpr(column, "null_", Null))
                       ELSE Ret(SqlExpr(column, "==", value))
       [] op = "NEQ" -> IF IsNullWord(value) THEN Ret(SqlExpr(column, "not_null_", Null))
                        ELSE Ret(SqlExpr(column, "!=", value))
       [] op = "LT" -> Ret(SqlExpr(column, "<", value))
       [] op = "LTE" -> Ret(SqlExpr(column, "<=", value))
       [] op = "GT" -> Ret(SqlExpr(column, ">", value))
       [] op = "GTE" -> Ret(SqlExpr(column, ">=", value))
       [] OTHER -> Raise("ValueError")

\* the list comprehension of chain_filter_queries_to_sql_query: the
\* predicate whose compilation raises first, 0 when none does
FirstUncompiled(preds) ==
  IF \A i \in 1..Len(preds) : ~Raised(filter_query_to_sql_query(preds[i])) THEN 0
  ELSE CHOOSE i \in 1..Len(preds) :
         /\ Raised(filter_query_to_sql_query(preds[i]))
         /\ \A j \in 1..(i - 1) : ~Raised(filter_query_to_sql_query(preds[j]))

\* chain_filter_queries_to_sql_query: reduce(x & y) over the compiled
\* expressions, held as their sequence; reduce() of an empty list without an
\* initial value raises TypeError
chain_filter_queries_to_sql_query(preds) ==
  IF FirstUncompiled(preds) # 0
  THEN filter_query_to_sql_query(preds[FirstUncompiled(preds)])
  ELSE IF preds = <<>> THEN Raise("TypeError")
  ELSE Ret([i \in 1..Len(preds) |-> filter_query_to_sql_query(preds[i]).v])


(***************************************************************************)
(* TinyDBQueryBuilder and the TinyDB query primitives it uses              *)
(***************************************************************************)
\* bool(v): the truthiness of a value
Truthy(v) ==
  CASE v.t = "null" -> FALSE
    [] v.t = "int" -> v.n # 0
    [] v.t = "str" -> v.s # <<>>
    [] v.t = "list" -> v.l # <<>>
    [] OTHER -> TRUE

\* the op token of a key: parts[1] when the key has a suffix, else "eq"
OpOf(pred) == IF pred.op = "" THEN "eq" ELSE pred.op

\* expected_for_query: a datetime is compared by its ISO text
ExpectedForQuery(expected) ==
  IF expected.t = "dt" THEN StrV(Isoformat(expected.n)) ELSE expected

\* the exception one key raises while the query is built, or "none".
\* Query has no method not_in: q_attr.not_in is a query on the sub-path
\* attr.not_in, and calling it evaluates an empty query (RuntimeError).
BuildExc(pred) ==
  CASE OpOf(pred) \in {"eq", "neq", "lt", "lte", "gt", "gte", "isnull", "contains",
                       "icontains", "startswith", "istartswith", "endswith",
                       "iendswith"} -> "none"
    [] OpOf(pred) = "in" -> IF pred.value.t = "list" THEN "none" ELSE "ValueError"
    [] OpOf(pred) = "notin" -> IF pred.value.t = "list" THEN "RuntimeError" ELSE "ValueError"
    [] OTHER -> "ValueError"

RECURSIVE FirstBuildExc(_, _)
FirstBuildExc(preds, i) ==
  IF i > Len(preds) THEN "none"
  ELSE IF BuildExc(preds[i]) # "none" THEN BuildExc(preds[i])
  ELSE FirstBuildExc(preds, i + 1)

\* build_tinydb_query(filters): the conditions in key order (the empty
\* sequence is Query().noop()); a list has no items() (AttributeError)
build_tinydb_query(filters) ==
  IF filters.form = "list" THEN Raise("AttributeError")
  ELSE IF FirstBuildExc(filters.preds, 1) # "none"
  THEN Raise(FirstBuildExc(filters.preds, 1))
  ELSE Ret(filters.preds)

\* Query.exists(): the path resolves in the document, whatever the value
Exists(doc, attr) == attr \in DOMAIN doc

\* one condition on one document.  A test on a path that does not resolve
\* (KeyError) is False; ~cond negates that outcome.
Condition(pred, doc) ==
  LET attr == pred.column
      expected == pred.value
      efq == ExpectedForQuery(pred.value)
      op == OpOf(pred)
  IN IF op = "isnull"
     THEN Ret(IF Truthy(expected) THEN ~Exists(doc, attr) ELSE Exists(doc, attr))
     ELSE IF ~Exists(doc, attr) THEN Ret(FALSE)
     ELSE LET v == doc[attr] IN
       CASE op = "eq" -> Ret(PyEq(v, efq))
         [] op = "neq" -> Ret(~PyEq(v, efq))
         [] op = "lt" -> IF v.t = "null" THEN Ret(FALSE) ELSE PyLt(v, efq)
         [] op = "lte" -> IF v.t = "null" THEN Ret(FALSE) ELSE PyLe(v, efq)
         [] op = "gt" -> IF v.t = "null" THEN Ret(FALSE) ELSE PyLt(efq, v)
         [] op = "gte" -> IF v.t = "null" THEN Ret(FALSE) ELSE PyLe(efq, v)
         [] op = "in" -> PyIn(v, expected)
         [] op = "contains" ->
              IF v.t \in {"str", "list"} THEN PyIn(expected, v) ELSE Ret(FALSE)
         [] op = "icontains" ->
              Ret(v.t = "str" /\ Substring(Lower(Str(expected)), Lower(v.s)))
         [] op = "startswith" -> Ret(v.t = "str" /\ StartsWith(v.s, Str(expected)))
         [] op = "istartswith" ->
              Ret(v.t = "str" /\ StartsWith(Lower(v.s), Lower(Str(expected))))
         [] op = "endswith" -> Ret(v.t = "str" /\ EndsWith(v.s, Str(expected)))
         [] op = "iendswith" ->
              Ret(v.t = "str" /\ EndsWith(Lower(v.s), Lower(Str(expected))))
         [] OTHER -> Raise("ValueError")

\* cond1 & cond2 & ... on one document: left to right, stopping at False
RECURSIVE QueryTest(_, _, _)
QueryTest(conds, doc, i) ==
  IF i > Len(conds) THEN Ret(TRUE)
  ELSE AndThen(Condition(conds[i], doc), QueryTest(conds, doc, i + 1))

\* Table.search(query): the matching documents in table order
RECURSIVE Search(_, _)
Search(docs, conds) ==
  IF docs = <<>> THEN Ret(<<>>)
  ELSE Keep(QueryTest(conds, docs[1], 1), docs[1], Search(Tail(docs), conds))


(***************************************************************************)
(* Ordering, cursor, offset and limit: the tail of filter()                *)
(***************************************************************************)
Last(x) == x[Len(x)]
Min(S) == CHOOSE m \in S : \A o \in S : m <= o

\* the keys of one field have one type in the data enumerated below, so the
\* comparison of list.sort never raises
KeyBefore(a, b, descending) == IF descending THEN PyLt(b, a).v ELSE PyLt(a, b).v

\* list.sort(key=..., reverse=descending) is stable in both directions
RECURSIVE InsertStable(_, _, _, _)
InsertStable(e, sorted, order_by, descending) ==
  IF sorted = <<>> THEN <<e>>
  ELSE IF KeyBefore(Getattr(e, order_by), Getattr(Head(sorted), order_by), descending)
  THEN <<e>> \o sorted
  ELSE <<Head(sorted)>> \o InsertStable(e, Tail(sorted), order_by, descending)

RECURSIVE SortBy(_, _, _)
SortBy(items, order_by, descending) ==
  IF items = <<>> THEN <<>>
  ELSE InsertStable(Last(items), SortBy(SubSeq(items, 1, Len(items) - 1), order_by, descending),
                    order_by, descending)

\* remove unsortables, then sort
\* an ordering that keeps the records without a key, after the sorted ones
Ordered_nulls_last(items, order_by, descending) ==
  SortBy(SelectSeq(items, LAMBDA e : Getattr(e, order_by).t # "null"), order_by, descending)
    \o SelectSeq(items, LAMBDA e : Getattr(e, order_by).t = "null")

Ordered(items, order_by, descending) ==
  SortBy(SelectSeq(items, LAMBDA e : Getattr(e, order_by).t # "null"), order_by, descending)

\* items[cursor_index + 1:] for the first item whose id == cursor, [] when
\* there is none (StopIteration)
AfterCursor(items, cursor) ==
  LET hits == {i \in 1..Len(items) : PyEq(Getattr(items[i], "id"), cursor)} IN
  IF cursor.t = "null" THEN items
  ELSE IF hits = {} THEN <<>>
  ELSE SubSeq(items, Min(hits) + 1, Len(items))

\* items[offset:] when offset is truthy
AfterOffset(items, offset) ==
  IF Truthy(offset) THEN SubSeq(items, offset.n + 1, Len(items)) ELSE items

\* items[:limit]
UpTo(items, limit) ==
  IF limit.t = "null" THEN items
  ELSE SubSeq(items, 1, IF limit.n < Len(items) THEN limit.n ELSE Len(items))

PaginatedResult(result, total, has_next, next_cursor) ==
  [result |-> result, total |-> total, has_next |-> has_next, next_cursor |-> next_cursor]

\* order_by "" stands for None (both are falsy)
InMemory_sorted(matched, order_by, descending) ==
  IF order_by # "" THEN Ordered(matched, order_by, descending) ELSE matched

TinyDB_sorted(matched, order_by, descending) ==
  IF order_by # "" /\ matched # <<>> THEN Ordered(matched, order_by, descending) ELSE matched

\* if limit is not None: has_next = len(items) > limit
HasNext(rest, limit) == limit.t # "null" /\ Len(rest) > limit.n

\* next_cursor = str(getattr(items[-1], "id"))
NextCursor(page) == StrV(Str(Getattr(Last(page), "id")))

\* the end of InMemoryRepository.filter: items[-1] of an empty page raises
InMemory_result(page, total, has_next) ==
  IF has_next /\ page = <<>> THEN Raise("IndexError")
  ELSE Ret(PaginatedResult(page, total, has_next, IF has_next THEN NextCursor(page) ELSE Null))

\* the end of TinyDBRepository.filter: if has_next and items
TinyDB_result(page, total, has_next) ==
  Ret(PaginatedResult(page, total, has_next,
                      IF has_next /\ page # <<>> THEN NextCursor(page) ELSE Null))

\* a filter that counts total after the offset is applied
InMemory_window_total_after_offset(items, limit, offset) ==
  InMemory_result(UpTo(AfterOffset(items, offset), limit), Len(AfterOffset(items, offset)),
                  HasNext(AfterOffset(items, offset), limit))

\* total, offset, has_next and limit over the items left after the cursor
InMemory_window(items, limit, offset) ==
  InMemory_result(UpTo(AfterOffset(items, offset), limit), Len(items),
                  HasNext(AfterOffset(items, offset), limit))

TinyDB_window(items, limit, offset) ==
  TinyDB_result(UpTo(AfterOffset(items, offset), limit), Len(items),
                HasNext(AfterOffset(items, offset), limit))

InMemory_paginate(matched, order_by, descending, limit, offset, cursor) ==
  InMemory_window(AfterCursor(InMemory_sorted(matched, order_by, descending), cursor),
                  limit, offset)

TinyDB_paginate(matched, order_by, descending, limit, offset, cursor) ==
  TinyDB_window(AfterCursor(TinyDB_sorted(matched, order_by, descending), cursor),
                limit, offset)

(***************************************************************************)
(* InMemoryRepository: _store is a dict in insertion order, held as a      *)
(* sequence of [k, e] entries                                              *)
(***************************************************************************)
Values(store) == [i \in 1..Len(store) |-> store[i].e]
Keys(store) == {store[i].k : i \in 1..Len(store)}
IndexOf(store, id) == CHOOSE i \in 1..Len(store) : store[i].k = id
Without(x, i) == SubSeq(x, 1, i - 1) \o SubSeq(x, i + 1, Len(x))

\* an assignment that keeps the id the input record carries
_assign_id_and_timestamps_keeping_id(entity, next_id, now) ==
  Merge(entity, [id |-> IF Getattr(entity, "id") = Null THEN IntV(next_id)
                        ELSE Getattr(entity, "id"),
                 created_at |-> DtV(now), updated_at |-> DtV(now)])

\* _assign_id_and_timestamps(entity, is_new=True)
_assign_id_and_timestamps(entity, next_id, now) ==
  Merge(entity, [id |-> IntV(next_id), created_at |-> DtV(now), updated_at |-> DtV(now)])

\* each operation yields the new store and the outcome of the call
InMemory_create(store, next_id, entity, now) ==
  LET e == _assign_id_and_timestamps(entity, next_id, now) IN
  [store |-> Append(store, [k |-> next_id, e |-> e]), next_id |-> next_id + 1, out |-> Ret(e)]

\* an update that bumps updated_at and drops the patch
InMemory_update_without_patch(store, entity_id, patch, now) ==
  IF entity_id \notin Keys(store) THEN [store |-> store, out |-> Raise("NotFound")]
  ELSE LET i == IndexOf(store, entity_id)
           updated == Merge(store[i].e, [updated_at |-> DtV(now)])
       IN [store |-> [store EXCEPT ![i].e = updated], out |-> Ret(updated)]

InMemory_update(store, entity_id, patch, now) ==
  IF entity_id \notin Keys(store) THEN [store |-> store, out |-> Raise("NotFound")]
  ELSE LET i == IndexOf(store, entity_id)
           updated == Merge(store[i].e, Merge(patch, [updated_at |-> DtV(now)]))
       IN [store |-> [store EXCEPT ![i].e = updated], out |-> Ret(updated)]

InMemory_delete(store, entity_id, soft, now) ==
  IF entity_id \notin Keys(store) THEN [store |-> store, out |-> Ret(FALSE)]
  ELSE LET i == IndexOf(store, entity_id) IN
       IF soft
       THEN [store |-> [store EXCEPT ![i].e = Merge(store[i].e, [deleted_at |-> DtV(now)])],
             out |-> Ret(TRUE)]
       ELSE [store |-> Without(store, i), out |-> Ret(TRUE)]

InMemory_get_by_id(store, entity_id) ==
  IF entity_id \in Keys(store) THEN store[IndexOf(store, entity_id)].e ELSE Null

\* list_all: list(self._store.values())
InMemory_list_all(store) == Values(store)

\* the number of items found, or the exception raised while finding them
Count(found) == IF Raised(found) THEN found ELSE Ret(Len(found.v))

\* count: sum(1 for e in values if _match_filters(e, filters))
InMemory_count(store, filters) == Count(MatchAll(Values(store), filters))

\* one turn of any(...): True at the first true test, which ends it
OrThen(m, rest) == IF Raised(m) THEN m ELSE IF m.v THEN Ret(TRUE) ELSE rest

\* any(evaluate(e, filters) for e in entities)
RECURSIVE AnyMatch(_, _)
AnyMatch(entities, filters) ==
  IF entities = <<>> THEN Ret(FALSE)
  ELSE OrThen(evaluate(entities[1], filters), AnyMatch(Tail(entities), filters))

InMemory_exists(store, filters) == AnyMatch(Values(store), filters)

\* the rest of filter once the items are matched, unless matching raised
InMemory_paginated(items, order_by, descending, limit, offset, cursor) ==
  IF Raised(items) THEN items
  ELSE InMemory_paginate(items.v, order_by, descending, limit, offset, cursor)

InMemory_filter(store, filters, order_by, descending, limit, offset, cursor) ==
  InMemory_paginated(MatchAll(Values(store), filters), order_by, descending, limit, offset,
                     cursor)


(***************************************************************************)
(* TinyDBRepository: the table is the sequence of its documents            *)
(***************************************************************************)
\* the keys for which key.endswith("_at")
AtKeys == {"created_at", "updated_at", "deleted_at"}
\* the other fields an entity class declares as datetime (PlaySession):
\* model_validate turns their ISO text into a datetime
DatetimeFields == {"session_start", "session_end"}

\* _entity_to_dict: model_dump() of the model's fields (every entity of the
\* model carries all fields of its class), datetimes as ISO text, an
\* enumeration member as its value
_entity_to_dict(entity) ==
  [f \in DOMAIN entity |->
     CASE entity[f].t = "dt" -> StrV(Isoformat(entity[f].n))
       [] entity[f].t = "enum" -> StrV(entity[f].s)
       [] OTHER -> entity[f]]

\* _dict_to_entity: "_at" text back to datetime (kept as text when it is no
\* ISO instant), then model_validate over the document's fields (every
\* document of the model carries all fields of its class)
_dict_to_entity(data) ==
  [f \in DOMAIN data |->
     IF f \in AtKeys \cup DatetimeFields /\ data[f].t = "str"
        /\ ~Raised(FromIsoformat(data[f].s))
     THEN FromIsoformat(data[f].s).v
     ELSE data[f]]

_dicts_to_entities(docs) == [i \in 1..Len(docs) |-> _dict_to_entity(docs[i])]

\* Entity.id == entity_id on one document
HasId(doc, entity_id) == "id" \in DOMAIN doc /\ PyEq(doc["id"], IntV(entity_id))
DocsById(table, entity_id) == SelectSeq(table, LAMBDA d : HasId(d, entity_id))

\* an instance that starts at 1 whatever the table holds
_get_next_id_from_one(table) == 1

\* _get_next_id: 1 on an empty table, else max(doc.get("id", 0)) + 1
_get_next_id(table) ==
  IF table = <<>> THEN 1
  ELSE LET ids == {IF "id" \in DOMAIN table[i] THEN table[i]["id"].n ELSE 0 : i \in 1..Len(table)}
       IN (CHOOSE m \in ids : \A o \in ids : o <= m) + 1

TinyDB_create(table, next_id, entity, now) ==
  LET e == _assign_id_and_timestamps(entity, next_id, now) IN
  [table |-> Append(table, _entity_to_dict(e)), next_id |-> next_id + 1, out |-> Ret(e)]

\* Table.update(fields, cond): every matching document takes the fields
TableUpdate(table, fields, entity_id) ==
  [i \in 1..Len(table) |->
     IF HasId(table[i], entity_id) THEN Merge(table[i], fields) ELSE table[i]]

\* patch_copy: the patch with updated_at, datetimes as ISO text
PatchCopy(patch, now) ==
  LET p == Merge(patch, [updated_at |-> StrV(Isoformat(now))]) IN
  [k \in DOMAIN p |-> IF p[k].t = "dt" THEN StrV(Isoformat(p[k].n)) ELSE p[k]]

TinyDB_update(table, entity_id, patch, now) ==
  IF DocsById(table, entity_id) = <<>> THEN [table |-> table, out |-> Raise("NotFound")]
  ELSE LET updated_data == Merge(DocsById(table, entity_id)[1], PatchCopy(patch, now))
           after == TableUpdate(table, updated_data, entity_id)
       IN [table |-> after,
           out |-> IF DocsById(after, entity_id) = <<>> THEN Raise("IndexError")
                   ELSE Ret(_dict_to_entity(DocsById(after, entity_id)[1]))]

TinyDB_delete(table, entity_id, soft, now) ==
  IF DocsById(table, entity_id) = <<>> THEN [table |-> table, out |-> Ret(FALSE)]
  ELSE IF soft
  THEN [table |-> TableUpdate(table, [deleted_at |-> StrV(Isoformat(now))], entity_id),
        out |-> Ret(TRUE)]
  ELSE [table |-> SelectSeq(table, LAMBDA d : ~HasId(d, entity_id)), out |-> Ret(TRUE)]

\* get_by_id: None when the search finds nothing, else the first document
TinyDB_get_by_id(table, entity_id) ==
  IF DocsById(table, entity_id) = <<>> THEN Null
  ELSE _dict_to_entity(DocsById(table, entity_id)[1])

\* list_all: _dicts_to_entities(table.all())
TinyDB_list_all(table) == _dicts_to_entities(table)

\* table.all(): the documents of the table, in insertion order
Table_all(table) == table

\* table.truncate()
Table_truncate(table) == <<>>

\* for item in backup: table.insert(item)
RECURSIVE InsertAll(_, _)
InsertAll(table, items) ==
  IF items = <<>> THEN table ELSE InsertAll(Append(table, items[1]), Tail(items))

\* an except block that inserts the backup without truncating first
TinyDB_rollback_without_truncate(table, backup) == InsertAll(table, backup)

\* the except block of atomic(): truncate, then insert every backup item
TinyDB_rollback(table, backup) == InsertAll(Table_truncate(table), backup)

\* table.search(build_tinydb_query(filters)), q being the built query
SearchBuilt(table, q) == IF Raised(q) THEN q ELSE Search(table, q.v)

\* count: len(table.search(build_tinydb_query(filters)))
TinyDB_count(table, filters) == Count(SearchBuilt(table, build_tinydb_query(filters)))

\* len(found) > 0, or the exception raised while finding
Positive(found) == IF Raised(found) THEN found ELSE Ret(Len(found.v) > 0)

\* exists: len(table.search(build_tinydb_query(filters))) > 0
TinyDB_exists(table, filters) == Positive(SearchBuilt(table, build_tinydb_query(filters)))

\* _dicts_to_entities(raw_items), unless the search raised
Entities(found) == IF Raised(found) THEN found ELSE Ret(_dicts_to_entities(found.v))

\* the try block of filter: the native query when filters is truthy, else
\* table.all()
NativeItems(table, filters) ==
  IF filters.preds = <<>> THEN Ret(_dicts_to_entities(table))
  ELSE Entities(SearchBuilt(table, build_tinydb_query(filters)))

\* the except block: list_all() filtered by the evaluator
FallbackItems(table, filters) == MatchAll(_dicts_to_entities(table), filters)

\* try ... except Exception: the fallback replaces a native query that raised
OrElse(native, fallback) == IF Raised(native) THEN fallback ELSE native

\* the rest of filter once the items are found, unless the fallback raised
TinyDB_paginated(items, order_by, descending, limit, offset, cursor) ==
  IF Raised(items) THEN items
  ELSE TinyDB_paginate(items.v, order_by, descending, limit, offset, cursor)

TinyDB_filter(table, filters, order_by, descending, limit, offset, cursor) ==
  TinyDB_paginated(OrElse(NativeItems(table, filters), FallbackItems(table, filters)),
                   order_by, descending, limit, offset, cursor)


(***************************************************************************)
(* smolorm: ORM builder, SqlModel and SmolORMRepository.  The table is the *)
(* sequence of its rows; a statement is [kind, valid, where], where is     *)
(* Null (no WHERE clause) or the id compared by col("id") == id.           *)
(***************************************************************************)
Statement(kind, valid) == [kind |-> kind, valid |-> valid, where |-> Null]

\* ORM.where(expr)
ORM_where(stmt, id) == [stmt EXCEPT !.where = IntV(id)]

RowMatches(row, where) == where.t = "null" \/ PyEq(row["id"], where)

\* ORM.run(): executes the accumulated text; whatever fails inside the try
\* is swallowed and [] returned, and a statement that returns no rows
\* (UPDATE, DELETE) also ends in the except branch after its commit.  The
\* value returned is a list in every case.
ORM_run(stmt, rows) ==
  IF ~stmt.valid THEN [rows |-> rows, result |-> <<>>]
  ELSE CASE stmt.kind = "SELECT" ->
              [rows |-> rows, result |-> SelectSeq(rows, LAMBDA r : RowMatches(r, stmt.where))]
         [] stmt.kind = "DELETE" ->
              [rows |-> SelectSeq(rows, LAMBDA r : ~RowMatches(r, stmt.where)), result |-> <<>>]
         [] OTHER -> [rows |-> rows, result |-> <<>>]

\* ORM.create(table_name, fields), the classmethod called with both
\* arguments: INSERT of the fields; the engine assigns the AUTOINCREMENT id
ORM_create(rows, seq, fields) ==
  [rows |-> Append(rows, Merge([id |-> IntV(seq + 1), created_at |-> Null,
                                updated_at |-> Null, deleted_at |-> Null], fields)),
   seq |-> seq + 1]

\* SqlModel._get_coldefs: the class attributes that are SmolField instances
_get_coldefs(decl) == SelectSeq(decl.attrs, LAMBDA a : a.kind # "plain")

\* the column type __init_subclass__ writes: TEXT for a TextField; the other
\* branches test cls.__dict__[key] against int, float, list, Enum and
\* datetime, which a SmolField instance is not, and write nothing
ColumnType(a) == IF a.kind = "TextField" THEN "TEXT" ELSE ""

\* the DEFAULT clause: val is the SmolField instance, which is not None and
\* is no str, int, float, Enum, datetime or list, so f" DEFAULT {val}" writes
\* the object's repr ("<smolorm.sqlmodel.TextField object at 0x...>"); a
\* plain value would be written as a literal
DefaultClause(a) ==
  IF a.kind = "plain" THEN [literal |-> TRUE, text |-> Str(a.val)]
  ELSE [literal |-> FALSE, text |-> <<"<">> \o <<a.kind>> \o <<">">>]

\* the CREATE TABLE IF NOT EXISTS text, column by column
CreateTable(decl) ==
  [table |-> decl.table_name.s,
   columns |-> [i \in 1..Len(_get_coldefs(decl)) |->
                  [name |-> _get_coldefs(decl)[i].name,
                   type |-> ColumnType(_get_coldefs(decl)[i]),
                   default |-> DefaultClause(_get_coldefs(decl)[i])]]]

\* connection.execute(text(query_str)): the engine parses the statement
\* before it looks at IF NOT EXISTS; a DEFAULT that is no literal is a
\* syntax error
Execute(stmt) ==
  IF \A i \in 1..Len(stmt.columns) : stmt.columns[i].default.literal THEN Ret(Null)
  ELSE Raise("OperationalError")

\* SqlModel.__init_subclass__: the table name, the column definitions, the
\* statement and its execution.  No path changes the rows of a table that
\* exists.
__init_subclass__(decl) ==
  IF decl.table_name = Null THEN Raise("SmolORMException")
  ELSE IF _get_coldefs(decl) = <<>> THEN Raise("SmolORMException")
  ELSE Execute(CreateTable(decl))

\* SqlModel.create: ORM.from_(table).create(fields) binds the fields dict to
\* the classmethod's table_name and leaves fields None; the INSERT text has
\* no column list and execute() raises outside any try
SqlModel_create(fields) == Raise("OperationalError")

\* SqlModel.update: ORM.from_(table).update(fields) binds the fields dict to
\* table_name: the text is "UPDATE {dict}" without SET, which is no SQL
SqlModel_update(fields) == Ret(Statement("UPDATE", FALSE))

\* a builder whose DELETE statement is well formed
SqlModel_delete_wellformed == Ret(Statement("DELETE", TRUE))

\* SqlModel.delete: ORM.from_(table).delete() calls the classmethod
\* delete(cls, table_name) without table_name (TypeError)
SqlModel_delete == Raise("TypeError")

\* SqlModel.select()
SqlModel_select == Statement("SELECT", TRUE)

SmolORM_create(rows, seq, entity, now) ==
  [rows |-> rows, seq |-> seq, out |-> SqlModel_create(entity)]

\* update: run() returns a list, so isinstance(result_id, list) holds and
\* ValueError("Result is not an id") is raised before the row is read back
SmolORM_update(rows, entity_id, patch, now) ==
  LET ran == ORM_run(ORM_where(SqlModel_update(patch).v, entity_id), rows) IN
  [rows |-> ran.rows, out |-> Raise("ValueError")]

\* delete: True when the statement ran, False on any exception
SmolORM_delete(rows, entity_id, soft) ==
  IF Raised(SqlModel_delete) THEN [rows |-> rows, out |-> Ret(FALSE)]
  ELSE [rows |-> ORM_run(ORM_where(SqlModel_delete.v, entity_id), rows).rows,
        out |-> Ret(TRUE)]

\* SmolORMRepository._store: {} from __init__, written by no method; filter,
\* count and exists read it through the evaluator
SmolORM_store == <<>>

SmolORM_filter(filters, order_by, descending, limit, offset, cursor) ==
  InMemory_filter(SmolORM_store, filters, order_by, descending, limit, offset, cursor)

SmolORM_count(filters) == InMemory_count(SmolORM_store, filters)

SmolORM_exists(filters) == InMemory_exists(SmolORM_store, filters)

\* json.dumps of one list item: text in double quotes, an int as digits,
\* None as null
JsonItem(e) ==
  CASE e.t = "str" -> <<"\"">> \o e.s \o <<"\"">>
    [] e.t = "int" -> IntToStr(e.n)
    [] OTHER -> <<"n", "u", "l", "l">>

RECURSIVE JsonJoin(_)
JsonJoin(es) ==
  IF es = <<>> THEN <<>>
  ELSE IF Len(es) = 1 THEN JsonItem(es[1])
  ELSE JsonItem(es[1]) \o <<",", " ">> \o JsonJoin(Tail(es))

\* json.dumps(list)
json_dumps(val) == <<"[">> \o JsonJoin(val.l) \o <<"]">>

\* the position of the first comma of a text, 0 when it has none
FirstComma(x) ==
  IF \E i \in 1..Len(x) : x[i] = ","
  THEN CHOOSE i \in 1..Len(x) : x[i] = "," /\ \A j \in 1..(i - 1) : x[j] # ","
  ELSE 0

\* the white space json.loads skips before an item
SkipSpace(x) == IF x # <<>> /\ x[1] = " " THEN Tail(x) ELSE x

\* the items of a JSON array body, split at its commas
RECURSIVE JsonSplit(_)
JsonSplit(x) ==
  IF FirstComma(x) = 0 THEN <<x>>
  ELSE <<SubSeq(x, 1, FirstComma(x) - 1)>>
       \o JsonSplit(SkipSpace(SubSeq(x, FirstComma(x) + 1, Len(x))))

\* json.loads of one item: quoted text, digits, or no JSON at all
JsonParseItem(x) ==
  IF /\ Len(x) >= 2 /\ x[1] = "\"" /\ x[Len(x)] = "\""
     /\ \A i \in 2..(Len(x) - 1) : x[i] # "\""
  THEN Ret(StrV(SubSeq(x, 2, Len(x) - 1)))
  ELSE IF IsDigits(x) THEN Ret(IntV(StrToInt(x)))
  ELSE Raise("JSONDecodeError")

\* the list of the parsed items, unless one of them is no JSON
JsonList(items) ==
  IF \E i \in 1..Len(items) : Raised(JsonParseItem(items[i])) THEN Raise("JSONDecodeError")
  ELSE Ret(ListV([i \in 1..Len(items) |-> JsonParseItem(items[i]).v]))

\* json.loads of a text that starts with "[" and ends with "]"
json_loads(x) ==
  IF Len(x) = 2 THEN Ret(ListV(<<>>))
  ELSE JsonList(JsonSplit(SubSeq(x, 2, Len(x) - 1)))

\* serialize, one value: a list becomes its JSON text, a datetime its ISO
\* text; every other value is left as it is
serialize_value(val) ==
  CASE val.t = "list" -> StrV(json_dumps(val))
    [] val.t = "dt" -> StrV(Isoformat(val.n))
    [] OTHER -> val

\* serialize(entity)
serialize(entity) == [k \in DOMAIN entity |-> serialize_value(entity[k])]

\* deserialize, one value: text in brackets goes through json.loads, text
\* ending in "Z" through datetime.fromisoformat; every other value is left
\* as it is
deserialize_value(val) ==
  IF val.t = "str" /\ StartsWith(val.s, <<"[">>) /\ EndsWith(val.s, <<"]">>)
  THEN json_loads(val.s)
  ELSE IF val.t = "str" /\ EndsWith(val.s, <<"Z">>) THEN FromIsoformat(val.s)
  ELSE Ret(val)

\* deserialize(entity)
deserialize(row) == [k \in DOMAIN row |-> deserialize_value(row[k])]

\* model_validate(deserialize(row)): the first exception deserialize raised,
\* else the entity
Validated(row) ==
  IF \E k \in DOMAIN row : Raised(deserialize(row)[k]) THEN Raise("ValueError")
  ELSE Ret([k \in DOMAIN row |-> deserialize(row)[k].v])

\* the first row run() returned, or ValueError("No entity with id ... found.")
FirstOf(result) == IF result = <<>> THEN Raise("ValueError") ELSE Validated(result[1])

SmolORM_get_by_id(rows, entity_id) ==
  FirstOf(ORM_run(ORM_where(SqlModel_select, entity_id), rows).result)

\* list_all: every row run() returned (the rows of the model all validate)
SmolORM_list_all(rows) ==
  Ret([i \in 1..Len(ORM_run(SqlModel_select, rows).result) |->
         Validated(ORM_run(SqlModel_select, rows).result[i]).v])

(***************************************************************************)
(* LocalStorageRepository: one file per record, held as id -> record       *)
(***************************************************************************)
LocalStorage_create(files, next_id, entity, now) ==
  LET e == Merge(entity, [id |-> IntV(next_id), created_at |-> DtV(now), updated_at |-> DtV(now)])
  IN [files |-> [k \in DOMAIN files \cup {next_id} |-> IF k = next_id THEN e ELSE files[k]],
      next_id |-> next_id + 1, out |-> Ret(e)]

LocalStorage_delete(files, entity_id) ==
  IF entity_id \in DOMAIN files
  THEN [files |-> [k \in DOMAIN files \ {entity_id} |-> files[k]], out |-> Ret(TRUE)]
  ELSE [files |-> files, out |-> Ret(FALSE)]

\* _compute_next_id: max of the ids in the file names, 0 by default, plus 1
_compute_next_id(files) ==
  IF DOMAIN files = {} THEN 1
  ELSE (CHOOSE m \in DOMAIN files : \A o \in DOMAIN files : o <= m) + 1

\* _deserialize(_serialize(e)): datetimes are written as ISO text and read
\* back through fromisoformat
LocalStorage_read(e) ==
  [f \in DOMAIN e |-> IF e[f].t = "dt" THEN FromIsoformat(Isoformat(e[f].n)).v ELSE e[f]]

\* get_by_id: None when the file does not exist
LocalStorage_get_by_id(files, entity_id) ==
  IF entity_id \in DOMAIN files THEN LocalStorage_read(files[entity_id]) ELSE Null

\* list_all: one record per file, in the order glob yields them (held as a set)
LocalStorage_list_all(files) == {LocalStorage_read(files[k]) : k \in DOMAIN files}


(***************************************************************************)
(* State                                                                   *)
(***************************************************************************)
VARIABLES
  mem_store,     \* InMemoryRepository._store
  mem_next_id,   \* InMemoryRepository._next_id
  tdb_table,     \* the TinyDB table of TinyDBRepository
  tdb_next_id,   \* TinyDBRepository._next_id
  tdb_backups,   \* the backup of each open atomic() scope, innermost last
  entered,       \* history: the persisted records at entry of each open scope
  svc,           \* the repositories of the services, per backend kind
  supplied,      \* history: a create_backlog call was handed entries
  sql_rows,      \* the relational table
  sql_seq,       \* the AUTOINCREMENT counter of the relational table
  ls_files,      \* the files of LocalStorageRepository
  ls_next_id,    \* LocalStorageRepository._next_id
  clock,         \* the last instant datetime.now() returned
  ops,           \* mutating calls made so far
  assigned,      \* history: the ids create has returned, in order, per backend
  pc,            \* "idle", "called" (a call has returned) or "paging"
  call,          \* the call last made and its arguments
  ret,           \* what the call returned or raised, per backend
  pg             \* the pagination loop of each backend

vars == <<mem_store, mem_next_id, tdb_table, tdb_next_id, tdb_backups, entered, svc, supplied,
          sql_rows, sql_seq,
          ls_files, ls_next_id, clock, ops, assigned, pc, call, ret, pg>>

stores == <<mem_store, mem_next_id, tdb_table, tdb_next_id, tdb_backups, entered, svc, supplied,
          sql_rows, sql_seq,
            ls_files, ls_next_id, clock, ops, assigned>>

\* the backends the services are run over: the in-memory repository and the
\* document store
Kinds == {"mem", "tdb"}
\* a repository as constructed: no record, _next_id = 1
EmptyRepo == [data |-> <<>>, next_id |-> 1]
\* the repositories handed to GameBacklogService and PlaySessionService
NoRecords == [backlog |-> EmptyRepo, entry |-> EmptyRepo, metadata |-> EmptyRepo,
              session |-> EmptyRepo]

NoCall == [op |-> "none"]
NoPaging == [active |-> FALSE]

(***************************************************************************)
(* Inputs of the calls                                                     *)
(***************************************************************************)
Ab == <<"A", "b">>
Entity(name, score, tags) ==
  [id |-> Null, name |-> name, score |-> score, tags |-> tags,
   created_at |-> Null, updated_at |-> Null, deleted_at |-> Null]

\* the entities handed to create
CreateInputs ==
  { Entity(StrV(Ab), IntV(1), Null),
    Entity(StrV(<<"b">>), Null, ListV(<<StrV(<<"a">>)>>)),
    Entity(StrV(<<"a">>), IntV(2), Null) }

\* the ids handed to update and delete (stored or not)
TargetIds == 1..2

\* the patches handed to update
Patches ==
  { [name |-> StrV(<<"b">>)],
    [score |-> IntV(2), name |-> StrV(<<"a">>)],
    [id |-> IntV(2)],
    [updated_at |-> DtV(0)] }

\* the fields handed to ORM.create
InsertFields == { [name |-> StrV(<<"a">>)] }

Init ==
  /\ mem_store = <<>> /\ mem_next_id = 1
  /\ tdb_table = <<>> /\ tdb_next_id = _get_next_id(<<>>)
  /\ tdb_backups = <<>> /\ entered = <<>>
  /\ svc = [k \in Kinds |-> NoRecords] /\ supplied = FALSE
  /\ sql_rows = <<>> /\ sql_seq = 0
  /\ ls_files = <<>> /\ ls_next_id = 1
  /\ clock = 0 /\ ops = 0
  /\ assigned = [mem |-> <<>>, tdb |-> <<>>]
  /\ pc = "idle" /\ call = NoCall /\ ret = NoCall /\ pg = NoPaging

(***************************************************************************)
(* Mutating calls: one call is made against every backend                  *)
(***************************************************************************)
Create(entity) ==
  /\ pc = "idle" /\ ops < MaxOps
  /\ LET now == clock + 1
         m == InMemory_create(mem_store, mem_next_id, entity, now)
         t == TinyDB_create(tdb_table, tdb_next_id, entity, now)
         q == SmolORM_create(sql_rows, sql_seq, entity, now)
         f == LocalStorage_create(ls_files, ls_next_id, entity, now)
     IN /\ mem_store' = m.store /\ mem_next_id' = m.next_id
        /\ tdb_table' = t.table /\ tdb_next_id' = t.next_id
        /\ sql_rows' = q.rows /\ sql_seq' = q.seq
        /\ ls_files' = f.files /\ ls_next_id' = f.next_id
        /\ assigned' = [mem |-> Append(assigned.mem, m.out.v["id"].n),
                        tdb |-> Append(assigned.tdb, t.out.v["id"].n)]
        /\ clock' = now /\ ops' = ops + 1
        /\ call' = [op |-> "create", entity |-> entity]
        /\ ret' = [op |-> "create", mem |-> m.out, tdb |-> t.out, sql |-> q.out, ls |-> f.out]
        /\ pc' = "called"
        /\ UNCHANGED <<tdb_backups, entered, svc, supplied, pg>>

Update(entity_id, patch) ==
  /\ pc = "idle" /\ ops < MaxOps
  /\ LET now == clock + 1
         m == InMemory_update(mem_store, entity_id, patch, now)
         t == TinyDB_update(tdb_table, entity_id, patch, now)
         q == SmolORM_update(sql_rows, entity_id, patch, now)
     IN /\ mem_store' = m.store
        /\ tdb_table' = t.table
        /\ sql_rows' = q.rows
        /\ clock' = now /\ ops' = ops + 1
        /\ call' = [op |-> "update", entity_id |-> entity_id, patch |-> patch]
        /\ ret' = [op |-> "update", mem |-> m.out, tdb |-> t.out, sql |-> q.out]
        /\ pc' = "called"
        /\ UNCHANGED <<mem_next_id, tdb_next_id, tdb_backups, entered, svc, supplied, sql_seq, ls_files,
                       ls_next_id,
                       assigned, pg>>

Delete(entity_id, soft) ==
  /\ pc = "idle" /\ ops < MaxOps
  /\ LET now == clock + 1
         m == InMemory_delete(mem_store, entity_id, soft, now)
         t == TinyDB_delete(tdb_table, entity_id, soft, now)
         q == SmolORM_delete(sql_rows, entity_id, soft)
         f == LocalStorage_delete(ls_files, entity_id)
     IN /\ mem_store' = m.store
        /\ tdb_table' = t.table
        /\ sql_rows' = q.rows
        /\ ls_files' = f.files
        /\ clock' = now /\ ops' = ops + 1
        /\ call' = [op |-> "delete", entity_id |-> entity_id, soft |-> soft]
        /\ ret' = [op |-> "delete", mem |-> m.out, tdb |-> t.out, sql |-> q.out, ls |-> f.out]
        /\ pc' = "called"
        /\ UNCHANGED <<mem_next_id, tdb_next_id, tdb_backups, entered, svc, supplied, sql_seq, ls_next_id,
                       assigned,                       pg>>

\* ORM.create(table, fields) called on the relational table directly (the
\* table is seeded by the caller outside any atomic() scope of the repository)
Insert(fields) ==
  /\ pc = "idle" /\ ops < MaxOps /\ entered = <<>>
  /\ LET q == ORM_create(sql_rows, sql_seq, fields)
     IN /\ sql_rows' = q.rows /\ sql_seq' = q.seq
  /\ ops' = ops + 1
  /\ UNCHANGED <<mem_store, mem_next_id, tdb_table, tdb_next_id, tdb_backups, entered, svc, supplied,
                 ls_files,                 ls_next_id, clock, assigned, pc, call, ret, pg>>

\* with repo.atomic(): entered.  TinyDB keeps table.all() as the backup; the
\* in-memory and relational atomic() only yield.
AtomicEnter ==
  /\ pc = "idle" /\ Len(tdb_backups) < MaxAtomicDepth
  /\ tdb_backups' = Append(tdb_backups, Table_all(tdb_table))
  /\ entered' = Append(entered, [mem |-> mem_store, tdb |-> tdb_table, sql |-> sql_rows])
  /\ UNCHANGED <<mem_store, mem_next_id, tdb_table, tdb_next_id, sql_rows, sql_seq, ls_files,
                 ls_next_id, clock, ops, assigned, svc, supplied, pc, call, ret, pg>>

\* the body of the innermost scope completed
AtomicExit ==
  /\ pc = "idle" /\ tdb_backups # <<>>
  /\ tdb_backups' = SubSeq(tdb_backups, 1, Len(tdb_backups) - 1)
  /\ entered' = SubSeq(entered, 1, Len(entered) - 1)
  /\ UNCHANGED <<mem_store, mem_next_id, tdb_table, tdb_next_id, sql_rows, sql_seq, ls_files,
                 ls_next_id, clock, ops, assigned, svc, supplied, pc, call, ret, pg>>

\* the body of the innermost scope raised: TinyDB truncates, inserts the
\* backup and re-raises; the in-memory and relational atomic() have no
\* except clause, the exception leaves the scope and nothing is undone
AtomicRollback ==
  /\ pc = "idle" /\ tdb_backups # <<>>
  /\ tdb_table' = TinyDB_rollback(tdb_table, Last(tdb_backups))
  /\ tdb_backups' = SubSeq(tdb_backups, 1, Len(tdb_backups) - 1)
  /\ entered' = SubSeq(entered, 1, Len(entered) - 1)
  /\ call' = [op |-> "atomic", entry |-> Last(entered)]
  /\ ret' = [op |-> "atomic", mem |-> Raise("Exception"), tdb |-> Raise("Exception"),
             sql |-> Raise("Exception")]
  /\ pc' = "called"
  /\ UNCHANGED <<mem_store, mem_next_id, tdb_next_id, sql_rows, sql_seq, ls_files,
                 ls_next_id, clock, ops, assigned, svc, supplied, pg>>

\* the caller has looked at the outcome and goes on
Ack ==
  /\ pc = "called"
  /\ pc' = "idle" /\ call' = NoCall /\ ret' = NoCall /\ pg' = NoPaging
  /\ UNCHANGED stores

Next ==
  \/ \E e \in CreateInputs : Create(e)
  \/ \E i \in TargetIds, p \in Patches : Update(i, p)
  \/ \E i \in TargetIds, soft \in BOOLEAN : Delete(i, soft)
  \/ \E f \in InsertFields : Insert(f)
  \/ AtomicEnter
  \/ AtomicExit
  \/ AtomicRollback
  \/ Ack

Spec == Init /\ [][Next]_vars


(***************************************************************************)
(* Read calls: one specification is handed to the in-memory backend as a   *)
(* list of FilterQuery and to the document store as the flat mapping the   *)
(* query builder compiles                                                  *)
(***************************************************************************)
\* the key suffix of the builder for a FilterOp member
Token(op) ==
  CASE op = "EQ" -> "eq" [] op = "NEQ" -> "neq" [] op = "LT" -> "lt" [] op = "LTE" -> "lte"
    [] op = "GT" -> "gt" [] op = "GTE" -> "gte" [] op = "IN" -> "in" [] op = "NOT_IN" -> "notin"
    [] op = "CONTAINS" -> "contains" [] op = "ICONTAINS" -> "icontains"
    [] op = "STARTS_WITH" -> "startswith" [] op = "ISTARTS_WITH" -> "istartswith"
    [] op = "ENDS_WITH" -> "endswith" [] op = "IENDS_WITH" -> "iendswith"
    [] OTHER -> "unknown"

AsList(preds) == ListSpec(preds)
AsDict(preds) ==
  DictSpec([i \in 1..Len(preds) |->
              FilterQuery(preds[i].column, Token(preds[i].op), preds[i].value)])

\* the columns a predicate targets: a text field, a nullable number, a
\* nullable list and a field no record has
Columns == {"name", "score", "tags", "nonexistent"}

\* the comparison values
CompareValues == { Null, IntV(1), StrV(<<"a">>), ListV(<<StrV(<<"a">>)>>) }

\* the specifications compared across backends: every single predicate and
\* two conjunctions
CompareSpecs ==
  { <<FilterQuery(c, op, v)>> : c \in Columns, op \in FilterOp, v \in CompareValues }
  \cup { <<FilterQuery("score", "GTE", IntV(1)), FilterQuery("name", "ICONTAINS", StrV(<<"a">>))>>,
         <<FilterQuery("name", "NEQ", StrV(<<"b">>)), FilterQuery("score", "EQ", Null)>> }

\* the specifications of the paginated calls: none of them raises
PageSpecs == { <<>>, <<FilterQuery("name", "ICONTAINS", StrV(<<"a">>))>> }
OrderBys == {"", "id", "score"}
Limits == {Null} \cup {IntV(n) : n \in 0..MaxLimit}
Offsets == {Null, IntV(1)}
Cursors == {Null, IntV(1), StrV(<<"1">>)}

\* the arguments of the paginated calls: descending goes with an order_by,
\* and a call has an offset or a cursor, not both
PageCalls ==
  { a \in [preds : PageSpecs, order_by : OrderBys, descending : BOOLEAN, limit : Limits,
           offset : Offsets, cursor : Cursors] :
      /\ a.descending => a.order_by # ""
      /\ a.offset = Null \/ a.cursor = Null }

\* the ids of a returned page, in order
Ids(items) == [i \in 1..Len(items) |-> Getattr(items[i], "id")]
IdSet(items) == {Getattr(items[i], "id") : i \in 1..Len(items)}

\* filter(spec) with every other argument left at its default
FilterCompare(preds) ==
  /\ pc = "idle"
  /\ call' = [op |-> "compare", preds |-> preds]
  /\ ret' = [op |-> "compare",
             mem |-> InMemory_filter(mem_store, AsList(preds), "", FALSE, Null, Null, Null),
             tdb |-> TinyDB_filter(tdb_table, AsDict(preds), "", FALSE, Null, Null, Null)]
  /\ pc' = "called"
  /\ UNCHANGED <<stores, pg>>

\* filter(spec, order_by, descending, limit, offset, cursor), and count(spec)
FilterPage(preds, order_by, descending, limit, offset, cursor) ==
  /\ pc = "idle"
  /\ call' = [op |-> "page", preds |-> preds, order_by |-> order_by,
              descending |-> descending, limit |-> limit, offset |-> offset,
              cursor |-> cursor]
  /\ ret' = [op |-> "page",
             mem |-> InMemory_filter(mem_store, AsList(preds), order_by, descending,
                                     limit, offset, cursor),
             tdb |-> TinyDB_filter(tdb_table, AsDict(preds), order_by, descending,
                                   limit, offset, cursor),
             mem_count |-> InMemory_count(mem_store, AsList(preds)),
             tdb_count |-> TinyDB_count(tdb_table, AsDict(preds))]
  /\ pc' = "called"
  /\ UNCHANGED <<stores, pg>>

\* the null checks on one column: EQ None and NEQ None through the
\* evaluator, eq/neq None and isnull True/False through the query builder,
\* EQ None and NEQ None through the SQL compiler
FilterNull(column) ==
  /\ pc = "idle"
  /\ call' = [op |-> "null", column |-> column]
  /\ ret' = [op |-> "null",
             mem_eq |-> InMemory_filter(mem_store, ListSpec(<<FilterQuery(column, "EQ", Null)>>),
                                        "", FALSE, Null, Null, Null),
             mem_neq |-> InMemory_filter(mem_store, ListSpec(<<FilterQuery(column, "NEQ", Null)>>),
                                         "", FALSE, Null, Null, Null),
             tdb_eq |-> TinyDB_filter(tdb_table, DictSpec(<<FilterQuery(column, "eq", Null)>>),
                                      "", FALSE, Null, Null, Null),
             tdb_neq |-> TinyDB_filter(tdb_table, DictSpec(<<FilterQuery(column, "neq", Null)>>),
                                       "", FALSE, Null, Null, Null),
             tdb_isnull |-> TinyDB_filter(tdb_table,
                                          DictSpec(<<FilterQuery(column, "isnull", IntV(1))>>),
                                          "", FALSE, Null, Null, Null),
             tdb_notnull |-> TinyDB_filter(tdb_table,
                                           DictSpec(<<FilterQuery(column, "isnull", IntV(0))>>),
                                           "", FALSE, Null, Null, Null),
             sql_eq |-> filter_query_to_sql_query(FilterQuery(column, "EQ", Null)),
             sql_neq |-> filter_query_to_sql_query(FilterQuery(column, "NEQ", Null))]
  /\ pc' = "called"
  /\ UNCHANGED <<stores, pg>>

(***************************************************************************)
(* The pagination loop of a caller: filter with a limit and no cursor,     *)
(* then filter with the next_cursor of the previous page while has_next    *)
(***************************************************************************)
\* one backend's loop after a call returned r (or raised)
Turn(loop, r) ==
  IF Raised(r) THEN [loop EXCEPT !.done = TRUE, !.raised = TRUE, !.calls = @ + 1]
  ELSE [acc |-> loop.acc \o r.v.result, cursor |-> r.v.next_cursor,
        done |-> ~r.v.has_next, raised |-> FALSE, calls |-> loop.calls + 1]

LoopStart == [acc |-> <<>>, cursor |-> Null, done |-> FALSE, raised |-> FALSE, calls |-> 0]

PageFirst(preds, order_by, limit) ==
  /\ pc = "idle"
  /\ pg' = [active |-> TRUE, preds |-> preds, order_by |-> order_by, limit |-> limit,
            mem |-> Turn(LoopStart, InMemory_filter(mem_store, AsList(preds), order_by, FALSE,
                                                    IntV(limit), Null, Null)),
            tdb |-> Turn(LoopStart, TinyDB_filter(tdb_table, AsDict(preds), order_by, FALSE,
                                                  IntV(limit), Null, Null))]
  /\ pc' = "paging"
  /\ UNCHANGED <<stores, call, ret>>

PageNext ==
  /\ pc = "paging" /\ (~pg.mem.done \/ ~pg.tdb.done)
  /\ pg' = [pg EXCEPT
              !.mem = IF pg.mem.done THEN @
                      ELSE Turn(@, InMemory_filter(mem_store, AsList(pg.preds), pg.order_by,
                                                   FALSE, IntV(pg.limit), Null, pg.mem.cursor)),
              !.tdb = IF pg.tdb.done THEN @
                      ELSE Turn(@, TinyDB_filter(tdb_table, AsDict(pg.preds), pg.order_by,
                                                 FALSE, IntV(pg.limit), Null, pg.tdb.cursor))]
  /\ UNCHANGED <<stores, pc, call, ret>>

\* has_next was false in every backend: the loop is over
PageEnd ==
  /\ pc = "paging" /\ pg.mem.done /\ pg.tdb.done
  /\ pc' = "idle" /\ pg' = NoPaging
  /\ UNCHANGED <<stores, call, ret>>

NextFilter ==
  \/ \E e \in CreateInputs : Create(e)
  \/ \E i \in TargetIds : Delete(i, FALSE)
  \/ \E preds \in CompareSpecs : FilterCompare(preds)
  \/ \E a \in PageCalls :
        FilterPage(a.preds, a.order_by, a.descending, a.limit, a.offset, a.cursor)
  \/ \E c \in Columns : FilterNull(c)
  \/ \E preds \in PageSpecs, o \in OrderBys, l \in 1..MaxLimit : PageFirst(preds, o, l)
  \/ PageNext
  \/ PageEnd
  \/ Ack

SpecFilter == Init /\ [][NextFilter]_vars


(***************************************************************************)
(* Reads by id: create (with and without caller-supplied id and            *)
(* timestamps), delete, ORM.create, then get_by_id and list_all            *)
(***************************************************************************)
\* an input record that carries an id and timestamps of the caller's
Supplied(entity) ==
  Merge(entity, [id |-> IntV(2), created_at |-> DtV(0), updated_at |-> DtV(0)])

\* the entities handed to create: two records, each as built by the caller
\* without and with an id and timestamps
ReadInputs ==
  { Entity(StrV(Ab), IntV(1), Null), Entity(StrV(<<"b">>), Null, ListV(<<StrV(<<"a">>)>>)),
    Supplied(Entity(StrV(Ab), IntV(1), Null)),
    Supplied(Entity(StrV(<<"b">>), Null, ListV(<<StrV(<<"a">>)>>))) }

\* the forms a specification is written in: a list of FilterQuery, a flat
\* mapping with key field__operator, and a flat mapping whose EQ keys have
\* no operator suffix
Forms == {"list", "dict", "bare"}

AsBare(preds) ==
  DictSpec([i \in 1..Len(preds) |->
              FilterQuery(preds[i].column,
                          IF preds[i].op = "EQ" THEN "" ELSE Token(preds[i].op),
                          preds[i].value)])

AsForm(form, preds) ==
  CASE form = "list" -> AsList(preds)
    [] form = "dict" -> AsDict(preds)
    [] OTHER -> AsBare(preds)

\* the specifications handed to filter, count and exists: the empty one,
\* conjunctions, an operator outside FilterOp, ordering operators on a
\* nullable and on an absent field, and values the native query fails on
QuerySpecs ==
  { <<>>,
    <<FilterQuery("name", "EQ", StrV(<<"b">>))>>,
    <<FilterQuery("name", "ICONTAINS", StrV(<<"b">>)), FilterQuery("name", "NEQ", StrV(<<"b">>))>>,
    <<FilterQuery("name", "EQ", StrV(<<"a">>)), FilterQuery("score", "LT", IntV(2))>>,
    <<FilterQuery("name", "UNKNOWN", StrV(<<"a">>))>>,
    <<FilterQuery("name", "EQ", StrV(<<"a">>)), FilterQuery("score", "UNKNOWN", IntV(1))>>,
    <<FilterQuery("score", "LT", StrV(<<"a">>))>>,
    <<FilterQuery("name", "IN", StrV(<<"a">>))>> }
  \cup { <<FilterQuery(c, op, IntV(2))>> : c \in {"score", "nonexistent"},
                                            op \in {"LT", "LTE", "GT", "GTE"} }

\* what filter (every other argument at its default), count and exists gave
Answers(f, c, e) == [filter |-> f, count |-> c, exists |-> e]

\* filter(spec), count(spec) and exists(spec) on the in-memory, document
\* store and relational backends, the specification written in each form,
\* and the SQL expression compiled from it
Query(preds) ==
  /\ pc = "idle"
  /\ call' = [op |-> "query", preds |-> preds]
  /\ ret' = [op |-> "query",
             mem |-> [form \in Forms |->
                        Answers(InMemory_filter(mem_store, AsForm(form, preds), "", FALSE,
                                                Null, Null, Null),
                                InMemory_count(mem_store, AsForm(form, preds)),
                                InMemory_exists(mem_store, AsForm(form, preds)))],
             tdb |-> [form \in Forms |->
                        Answers(TinyDB_filter(tdb_table, AsForm(form, preds), "", FALSE,
                                              Null, Null, Null),
                                TinyDB_count(tdb_table, AsForm(form, preds)),
                                TinyDB_exists(tdb_table, AsForm(form, preds)))],
             sql |-> [form \in Forms |->
                        Answers(SmolORM_filter(AsForm(form, preds), "", FALSE, Null, Null, Null),
                                SmolORM_count(AsForm(form, preds)),
                                SmolORM_exists(AsForm(form, preds)))],
             sql_query |-> chain_filter_queries_to_sql_query(preds)]
  /\ pc' = "called"
  /\ UNCHANGED <<stores, pg>>

\* the field values handed to the codec of the relational backend: None,
\* ints, texts (plain, in brackets, ending in "Z"), datetimes, enumeration
\* members and lists
CodecValues ==
  { Null, IntV(1), IntV(12), StrV(<<"a">>), StrV(Ab), StrV(<<"[", "a", "]">>),
    StrV(<<"[", "1", "]">>), StrV(<<"[", "]">>), StrV(<<"a", "Z">>), DtV(0), DtV(12),
    EnumV(<<"A">>), ListV(<<>>), ListV(<<StrV(<<"a">>)>>),
    ListV(<<StrV(<<"a">>), IntV(1)>>), ListV(<<StrV(<<"[", "b", "]">>), StrV(Ab)>>) }

\* serialize(entity), then deserialize of what it returned
Codec(entity) ==
  /\ pc = "idle"
  /\ call' = [op |-> "codec", entity |-> entity]
  /\ ret' = [op |-> "codec", encoded |-> serialize(entity),
             decoded |-> deserialize(serialize(entity))]
  /\ pc' = "called"
  /\ UNCHANGED <<stores, pg>>

\* the class declarations schema synthesis is run for: a table name and the
\* class attributes in order, each a plain value (TestUser, DummyModel of the
\* tests) or a SmolField instance (PlaySessionModel); one declaration has no
\* table name
Attr(name, kind, val) == [name |-> name, kind |-> kind, val |-> val]
Declarations ==
  { [table_name |-> StrV(<<"t">>),
     attrs |-> <<Attr("age", "plain", IntV(0)), Attr("username", "plain", StrV(<<"a">>))>>],
    [table_name |-> StrV(<<"t">>),
     attrs |-> <<Attr("title", "TextField", StrV(<<>>))>>],
    [table_name |-> StrV(<<"t">>),
     attrs |-> <<Attr("session_start", "DatetimeField", DtV(0)),
                 Attr("backlog_entry", "IntField", IntV(0))>>],
    [table_name |-> Null,
     attrs |-> <<Attr("title", "TextField", StrV(<<>>))>>] }

\* SqlModel.__init_subclass__ when the class is defined
Synthesize(decl) ==
  /\ pc = "idle"
  /\ call' = [op |-> "synthesize", decl |-> decl, run |-> 1, rows |-> sql_rows]
  /\ ret' = [op |-> "synthesize", out |-> __init_subclass__(decl)]
  /\ pc' = "called"
  /\ UNCHANGED <<stores, pg>>

\* Cls.__init_subclass__() called again for the same class, as the fixtures
\* of the tests do
SynthesizeAgain ==
  /\ pc = "called" /\ call.op = "synthesize" /\ call.run = 1
  /\ call' = [call EXCEPT !.run = 2]
  /\ ret' = [op |-> "synthesize", out |-> __init_subclass__(call.decl)]
  /\ UNCHANGED <<stores, pc, pg>>

\* a new TinyDBRepository and a new LocalStorageRepository are constructed
\* over the data the previous instances left: __init__ computes _next_id
Reopen ==
  /\ pc = "idle"
  /\ tdb_next_id' = _get_next_id(tdb_table)
  /\ ls_next_id' = _compute_next_id(ls_files)
  /\ call' = [op |-> "reopen"]
  /\ ret' = [op |-> "reopen", tdb |-> Ret(tdb_next_id'), ls |-> Ret(ls_next_id')]
  /\ pc' = "called"
  /\ UNCHANGED <<mem_store, mem_next_id, tdb_table, tdb_backups, entered, svc, supplied, sql_rows, sql_seq,
                 ls_files, clock, ops, assigned, pg>>

\* get_by_id(entity_id) and list_all() on every backend
Get(entity_id) ==
  /\ pc = "idle"
  /\ call' = [op |-> "get", entity_id |-> entity_id]
  /\ ret' = [op |-> "get",
             mem |-> Ret(InMemory_get_by_id(mem_store, entity_id)),
             tdb |-> Ret(TinyDB_get_by_id(tdb_table, entity_id)),
             sql |-> SmolORM_get_by_id(sql_rows, entity_id),
             ls |-> Ret(LocalStorage_get_by_id(ls_files, entity_id)),
             mem_all |-> Ret(InMemory_list_all(mem_store)),
             tdb_all |-> Ret(TinyDB_list_all(tdb_table)),
             sql_all |-> SmolORM_list_all(sql_rows),
             ls_all |-> Ret(LocalStorage_list_all(ls_files))]
  /\ pc' = "called"
  /\ UNCHANGED <<stores, pg>>

NextRead ==
  \/ \E e \in ReadInputs : Create(e)
  \/ \E i \in TargetIds, soft \in BOOLEAN : Delete(i, soft)
  \/ \E f \in InsertFields : Insert(f)
  \/ \E i \in TargetIds : Get(i)
  \/ \E preds \in QuerySpecs : Query(preds)
  \/ \E v \in CodecValues : Codec([value |-> v])
  \/ \E d \in Declarations : Synthesize(d)
  \/ SynthesizeAgain
  \/ Reopen
  \/ Ack

SpecRead == Init /\ [][NextRead]_vars


(***************************************************************************)
(* Properties of the read calls (checked under SpecFilter)                 *)
(***************************************************************************)
Compared == pc = "called" /\ call.op = "compare"
Paged == pc = "called" /\ call.op = "page"
NullChecked == pc = "called" /\ call.op = "null"
LoopOver == pc = "paging" /\ pg.mem.done /\ pg.tdb.done

\* the unpaginated result of the loop's specification and order_by
MemUnpaginated ==
  InMemory_filter(mem_store, AsList(pg.preds), pg.order_by, FALSE, Null, Null, Null)
TdbUnpaginated ==
  TinyDB_filter(tdb_table, AsDict(pg.preds), pg.order_by, FALSE, Null, Null, Null)

\* C1: for any dataset and any specification built from the supported
\* operators, filter(spec) returns the same set of record ids from the
\* in-memory backend (evaluator) and from the document store (compiled
\* query), whenever both calls return.
C1_SameIdsAcrossBackends ==
  (Compared /\ ~Raised(ret.mem) /\ ~Raised(ret.tdb))
    => IdSet(ret.mem.v.result) = IdSet(ret.tdb.v.result)

\* C2: when the limit + next_cursor loop is over, each backend's
\* concatenated pages are the result of one call with the same specification
\* and order_by and no limit.
C2_PagesEqualUnpaginated ==
  LoopOver =>
    /\ ~pg.mem.raised /\ pg.mem.acc = MemUnpaginated.v.result
    /\ ~pg.tdb.raised /\ pg.tdb.acc = TdbUnpaginated.v.result

\* the records of the in-memory store whose field is null or absent
MemNullIds(column) ==
  {Getattr(mem_store[i].e, "id") : i \in {j \in 1..Len(mem_store) :
                                            Getattr(mem_store[j].e, column).t = "null"}}
MemAllIds == {Getattr(mem_store[i].e, "id") : i \in 1..Len(mem_store)}

\* C3: on one column and the same data, EQ with a null value selects exactly
\* the records of the null check (field null or absent) and NEQ with a null
\* value exactly those of the not-null check, in the evaluator, in the
\* document-store query compiler and in the SQL expression compiler.
C3_NullEquivalence ==
  NullChecked =>
    /\ ~Raised(ret.mem_eq) /\ IdSet(ret.mem_eq.v.result) = MemNullIds(call.column)
    /\ ~Raised(ret.mem_neq)
    /\ IdSet(ret.mem_neq.v.result) = MemAllIds \ MemNullIds(call.column)
    /\ ~Raised(ret.tdb_eq) /\ ~Raised(ret.tdb_isnull)
    /\ IdSet(ret.tdb_eq.v.result) = IdSet(ret.tdb_isnull.v.result)
    /\ ~Raised(ret.tdb_neq) /\ ~Raised(ret.tdb_notnull)
    /\ IdSet(ret.tdb_neq.v.result) = IdSet(ret.tdb_notnull.v.result)
    /\ ret.sql_eq = Ret(SqlExpr(call.column, "null_", Null))
    /\ ret.sql_neq = Ret(SqlExpr(call.column, "not_null_", Null))

\* C4: in the PaginatedResult of filter(spec, limit, offset), total is the
\* number count(spec) returns, whatever the limit and the offset.
C4_TotalIsCount ==
  (Paged /\ call.order_by = "" /\ call.cursor = Null) =>
    /\ ~Raised(ret.mem) => (~Raised(ret.mem_count) /\ ret.mem.v.total = ret.mem_count.v)
    /\ ~Raised(ret.tdb) => (~Raised(ret.tdb_count) /\ ret.tdb.v.total = ret.tdb_count.v)

\* a page of one record out of two matching ones, taken after an offset
C4_Witness ==
  /\ Paged /\ call.order_by = "" /\ call.cursor = Null
  /\ call.offset = IntV(1) /\ call.limit = IntV(1)
  /\ ~Raised(ret.mem) /\ ret.mem.v.total = 2 /\ Len(ret.mem.v.result) = 1
  /\ ~Raised(ret.tdb) /\ ret.tdb.v.total = 2 /\ Len(ret.tdb.v.result) = 1

\* the offset a call applied to its total items
Skipped(total) ==
  IF Truthy(call.offset) THEN (IF call.offset.n < total THEN call.offset.n ELSE total) ELSE 0

\* one PaginatedResult r of the call: next_cursor and has_next as the
\* contract states them
CursorContract(r) ==
  /\ r.next_cursor # Null =>
       (r.result # <<>> /\ PyEq(Getattr(Last(r.result), "id"), r.next_cursor))
  /\ r.next_cursor # Null <=> r.has_next
  /\ r.has_next <=> (call.limit # Null /\ Len(r.result) < r.total - Skipped(r.total))
  /\ call.limit = Null => (~r.has_next /\ r.next_cursor = Null)

\* C5: in every PaginatedResult: next_cursor is present only with a non-empty
\* result and is then the id of its last item (equal to it in the cursor
\* comparison of the next call); it is present exactly when has_next is true;
\* has_next is true exactly when a limit was given and more items remain.
C5_CursorInvariants ==
  Paged =>
    /\ ~Raised(ret.mem) => CursorContract(ret.mem.v)
    /\ ~Raised(ret.tdb) => CursorContract(ret.tdb.v)


(***************************************************************************)
(* Properties of the mutating calls (checked under Spec)                   *)
(***************************************************************************)
Created == pc = "called" /\ call.op = "create"
Updated == pc = "called" /\ call.op = "update"
Deleted == pc = "called" /\ call.op = "delete"
\* the step in which a call of the given kind is made
Calls(op) == pc = "idle" /\ pc' = "called" /\ call'.op = op

StrictlyIncreasing(ids) == \A i, j \in 1..Len(ids) : i < j => ids[i] < ids[j]
Distinct(ids) == \A i, j \in 1..Len(ids) : i # j => ids[i] # ids[j]
DocIds(table) == [i \in 1..Len(table) |-> table[i]["id"]]
RowStored(rows, entity_id) == \E i \in 1..Len(rows) : PyEq(rows[i]["id"], IntV(entity_id))

\* C6: in the in-memory and document-store backends every create returns an
\* id greater than every id the instance assigned before (so none is reused,
\* after a hard delete or a rolled back scope either), and no two records
\* the instance holds share an id.
C6_IdsIncreaseAndUnique ==
  /\ StrictlyIncreasing(assigned.mem) /\ StrictlyIncreasing(assigned.tdb)
  /\ Distinct(Ids(Values(mem_store))) /\ Distinct(DocIds(tdb_table))

\* C7: a record's id never changes: each record of the in-memory map under
\* key k has id k, and no two documents of the table have the same id.
C7_IdImmutable ==
  /\ \A i \in 1..Len(mem_store) : mem_store[i].e["id"] = IntV(mem_store[i].k)
  /\ Distinct(DocIds(tdb_table))

\* C8: update on an id that is not stored fails with the backend's not-found
\* error and leaves the records as they were, in the in-memory, document
\* store and relational backends.
C8_UpdateAbsentNotFound ==
  [][Calls("update") =>
       /\ call'.entity_id \notin Keys(mem_store)
            => (ret'.mem.exc = "NotFound" /\ mem_store' = mem_store)
       /\ DocsById(tdb_table, call'.entity_id) = <<>>
            => (ret'.tdb.exc = "NotFound" /\ tdb_table' = tdb_table)
       /\ ~RowStored(sql_rows, call'.entity_id)
            => (ret'.sql.exc = "NotFound" /\ sql_rows' = sql_rows)]_vars

\* what update leaves of a stored in-memory record, with the fields of the
\* patch in exempt not required to take the patch value
MergedExcept(exempt) ==
  LET id == call'.entity_id
      patch == call'.patch
      before == InMemory_get_by_id(mem_store, id)
      after == InMemory_get_by_id(mem_store', id)
  IN /\ ~Raised(ret'.mem) /\ ret'.mem.v = after
     /\ \A f \in DOMAIN patch \ exempt : after[f] = patch[f]
     /\ \A f \in DOMAIN before \ (DOMAIN patch \cup {"updated_at"}) : after[f] = before[f]
     /\ before["updated_at"].t = "dt" /\ after["updated_at"].t = "dt"
     /\ before["updated_at"].n < after["updated_at"].n
     /\ Keys(mem_store') = Keys(mem_store)
     /\ \A k \in Keys(mem_store) \ {id} :
          InMemory_get_by_id(mem_store', k) = InMemory_get_by_id(mem_store, k)

DeleteContract(out, stored, same, gone) ==
  /\ ~Raised(out)
  /\ ~stored => (out.v = FALSE /\ same)
  /\ out.v = TRUE => (stored /\ gone)

MemGone(store, entity_id, soft) ==
  IF soft THEN entity_id \in Keys(store)
               /\ InMemory_get_by_id(store, entity_id)["deleted_at"].t = "dt"
  ELSE entity_id \notin Keys(store)

TdbGone(table, entity_id, soft) ==
  IF soft THEN DocsById(table, entity_id) # <<>>
               /\ \A i \in 1..Len(DocsById(table, entity_id)) :
                    DocsById(table, entity_id)[i]["deleted_at"].t = "str"
  ELSE DocsById(table, entity_id) = <<>>

\* C10: delete on an id that is not stored returns false, does not raise and
\* leaves the records unchanged, in the in-memory, document-store,
\* relational and file backends; it returns true only when a stored record
\* was removed or marked deleted.
C10_DeleteAbsentFalse ==
  [][Calls("delete") =>
       LET id == call'.entity_id IN
       /\ DeleteContract(ret'.mem, id \in Keys(mem_store), mem_store' = mem_store,
                         MemGone(mem_store', id, call'.soft))
       /\ DeleteContract(ret'.tdb, DocsById(tdb_table, id) # <<>>, tdb_table' = tdb_table,
                         TdbGone(tdb_table', id, call'.soft))
       /\ DeleteContract(ret'.sql, RowStored(sql_rows, id), sql_rows' = sql_rows,
                         ~RowStored(sql_rows', id))
       /\ DeleteContract(ret'.ls, id \in DOMAIN ls_files, ls_files' = ls_files,
                         id \notin DOMAIN ls_files')]_vars

\* delete(2) returned false in every backend while each holds a record
\* under another id
C10_Witness ==
  /\ Deleted /\ call.entity_id = 2
  /\ ret.mem = Ret(FALSE) /\ ret.tdb = Ret(FALSE) /\ ret.sql = Ret(FALSE) /\ ret.ls = Ret(FALSE)
  /\ Keys(mem_store) = {1} /\ DocsById(tdb_table, 1) # <<>>
  /\ RowStored(sql_rows, 1) /\ ~RowStored(sql_rows, 2) /\ DOMAIN ls_files = {1}


(***************************************************************************)
(* Properties of delete, get_by_id and create (checked under SpecRead)     *)
(***************************************************************************)
Got == pc = "called" /\ call.op = "get"

\* a record read back after a soft delete: still there, marked deleted,
\* every other field as before
SoftDeleted(before, after) ==
  /\ after # Null /\ after["deleted_at"] # Null
  /\ \A f \in DOMAIN before \ {"deleted_at"} : after[f] = before[f]

\* no record of a list_all result has the id
NotListed(all, entity_id) == \A i \in 1..Len(all) : ~PyEq(all[i]["id"], IntV(entity_id))

\* the outcome of delete on a stored record in one backend: out is what
\* the call returned, before and after what get_by_id gives around the
\* call, all what list_all gives after it
DeleteStoredContract(out, soft, before, after, all, entity_id) ==
  /\ out = Ret(TRUE)
  /\ IF soft THEN SoftDeleted(before, after)
     ELSE after = Null /\ NotListed(all, entity_id)

\* get_by_id of the relational backend as a value: None when it raises
SqlRecord(rows, entity_id) ==
  IF Raised(SmolORM_get_by_id(rows, entity_id)) THEN Null
  ELSE SmolORM_get_by_id(rows, entity_id).v

\* C11: delete(id, soft=True) on a stored record returns true and the
\* record is still returned by get_by_id, with a non-null deleted_at and its
\* other fields unchanged; delete(id, soft=False) returns true and the
\* record is no longer returned by get_by_id or list_all; in the in-memory,
\* document-store and relational backends.
C11_SoftMarksHardRemoves ==
  [][Calls("delete") =>
       LET id == call'.entity_id IN
       /\ id \in Keys(mem_store) =>
            DeleteStoredContract(ret'.mem, call'.soft, InMemory_get_by_id(mem_store, id),
                                 InMemory_get_by_id(mem_store', id),
                                 InMemory_list_all(mem_store'), id)
       /\ DocsById(tdb_table, id) # <<>> =>
            DeleteStoredContract(ret'.tdb, call'.soft, TinyDB_get_by_id(tdb_table, id),
                                 TinyDB_get_by_id(tdb_table', id),
                                 TinyDB_list_all(tdb_table'), id)
       /\ RowStored(sql_rows, id) =>
            DeleteStoredContract(ret'.sql, call'.soft, SqlRecord(sql_rows, id),
                                 SqlRecord(sql_rows', id),
                                 SmolORM_list_all(sql_rows').v, id)]_vars

\* the call returned None
ReturnedNone(r) == ~Raised(r) /\ r.v = Null

\* C12: get_by_id on an id that is not stored (never created, or hard
\* deleted) returns None and does not raise, in the in-memory, file,
\* document-store and relational backends.
C12_GetAbsentIsNone ==
  Got =>
    /\ call.entity_id \notin Keys(mem_store) => ReturnedNone(ret.mem)
    /\ call.entity_id \notin DOMAIN ls_files => ReturnedNone(ret.ls)
    /\ DocsById(tdb_table, call.entity_id) = <<>> => ReturnedNone(ret.tdb)
    /\ ~RowStored(sql_rows, call.entity_id) => ReturnedNone(ret.sql)

\* the input records that differ from entity only in id, created_at and
\* updated_at
Variants(entity) ==
  { Merge(entity, [id |-> i, created_at |-> c, updated_at |-> u]) :
      i \in {Null, IntV(1), IntV(2)}, c \in {Null, DtV(0)}, u \in {Null, DtV(0)} }

\* the record create returned has the backend's id and the time of the call
Stamped(out, next_id, now) ==
  /\ ~Raised(out)
  /\ out.v["id"] = IntV(next_id)
  /\ out.v["created_at"] = DtV(now) /\ out.v["updated_at"] = DtV(now)

Queried == pc = "called" /\ call.op = "query"

\* filter returned all the given records and count their number
MatchedAll(answers, all) ==
  /\ ~Raised(answers.filter) /\ answers.filter.v.result = all
  /\ ~Raised(answers.count) /\ answers.count.v = Len(all)

\* C14: with the empty specification, filter returns all stored records and
\* count their number in the in-memory, document-store and relational
\* backends (each given the form it takes natively), and the SQL expression
\* compiler yields a query instead of failing.
C14_EmptyMatchesAll ==
  (Queried /\ call.preds = <<>>) =>
    /\ MatchedAll(ret.mem["list"], InMemory_list_all(mem_store))
    /\ MatchedAll(ret.tdb["dict"], TinyDB_list_all(tdb_table))
    /\ MatchedAll(ret.sql["list"], SmolORM_list_all(sql_rows).v)
    /\ ~Raised(ret.sql_query)

\* the same predicates listed in the opposite order
Reverse(preds) == [i \in 1..Len(preds) |-> preds[Len(preds) + 1 - i]]

\* the unpaginated filter of each backend on the specification in the form
\* the backend takes natively
MemFilter(preds) == InMemory_filter(mem_store, AsList(preds), "", FALSE, Null, Null, Null)
TdbFilter(preds) == TinyDB_filter(tdb_table, AsDict(preds), "", FALSE, Null, Null, Null)

\* a conjunction's answer against the answers to its predicates taken alone
\* (singles) and to the predicates in the opposite order (reversed): the
\* call that returned selected the records every predicate selects, and the
\* opposite order returns the same ones
Conjunctive(answer, singles, reversed) ==
  ~Raised(answer) =>
    /\ (\A i \in DOMAIN singles : ~Raised(singles[i])) =>
         IdSet(answer.v.result) =
           {id \in UNION {IdSet(singles[i].v.result) : i \in DOMAIN singles} :
              \A i \in DOMAIN singles : id \in IdSet(singles[i].v.result)}
    /\ ~Raised(reversed) /\ IdSet(reversed.v.result) = IdSet(answer.v.result)

\* C15: the predicates of a specification are combined with AND: the result
\* of filter holds exactly the records every predicate selects, and listing
\* the predicates in another order gives the same set, in the evaluator
\* (in-memory backend) and in the compiled query (document store).
C15_ConjunctionAnyOrder ==
  (Queried /\ Len(call.preds) = 2) =>
    /\ Conjunctive(ret.mem["list"].filter,
                   [i \in 1..2 |-> MemFilter(<<call.preds[i]>>)],
                   MemFilter(Reverse(call.preds)))
    /\ Conjunctive(ret.tdb["dict"].filter,
                   [i \in 1..2 |-> TdbFilter(<<call.preds[i]>>)],
                   TdbFilter(Reverse(call.preds)))

\* filter, count and exists all failed with the unsupported-operator error
\* (ValueError("Unsupported filter operator: ..."))
Unsupported(answers) ==
  /\ answers.filter.exc = "ValueError"
  /\ answers.count.exc = "ValueError"
  /\ answers.exists.exc = "ValueError"

\* C16: a specification naming an operator outside the supported set makes
\* filter, count and exists fail with the unsupported-operator error in the
\* in-memory, document-store and relational backends; no call returns a
\* result instead.
C16_UnknownOperatorFails ==
  (Queried /\ \E i \in 1..Len(call.preds) : call.preds[i].op \notin FilterOp) =>
    /\ Unsupported(ret.mem["list"])
    /\ Unsupported(ret.tdb["dict"])
    /\ Unsupported(ret.sql["list"])

OrderingOps == {"LT", "LTE", "GT", "GTE"}

\* the ids of the records whose field is not null and compares as the
\* predicate says
NonNullMatches(entities, pred) ==
  { Getattr(entities[i], "id") :
      i \in { j \in 1..Len(entities) :
                /\ Getattr(entities[j], pred.column).t # "null"
                /\ _compare(Getattr(entities[j], pred.column), pred.value, pred.op) = Ret(TRUE) } }

\* filter, count and exists completed and selected the given ids
Selected(answers, ids) ==
  /\ ~Raised(answers.filter) /\ IdSet(answers.filter.v.result) = ids
  /\ ~Raised(answers.count) /\ answers.count.v = Cardinality(ids)
  /\ ~Raised(answers.exists) /\ answers.exists.v = (ids # {})

\* C17: an ordering predicate (LT, LTE, GT, GTE) never raises on a record
\* whose field is null or absent and does not match it: filter, count and
\* exists complete and select the records with a non-null field that
\* compares as stated, in the evaluator (in-memory backend) and in the
\* compiled query (document store).
C17_OrderingOnNullNoMatch ==
  (Queried /\ Len(call.preds) = 1 /\ call.preds[1].op \in OrderingOps
           /\ call.preds[1].value = IntV(2)) =>
    /\ Selected(ret.mem["list"], NonNullMatches(Values(mem_store), call.preds[1]))
    /\ Selected(ret.tdb["dict"], NonNullMatches(TinyDB_list_all(tdb_table), call.preds[1]))

\* two outcomes of one call agree: both raised, or both returned and the
\* views of what they returned are equal
Agree(a, b, view_a, view_b) ==
  /\ Raised(a) <=> Raised(b)
  /\ ~Raised(a) /\ ~Raised(b) => view_a = view_b

\* filter, count and exists selected the same records for two forms
SameSelection(x, y) ==
  /\ Agree(x.filter, y.filter, IdSet(x.filter.v.result), IdSet(y.filter.v.result))
  /\ Agree(x.count, y.count, x.count.v, y.count.v)
  /\ Agree(x.exists, y.exists, x.exists.v, y.exists.v)

\* C18: the same conditions written as a list of (field, operator, value)
\* triples, as a flat mapping with field__operator keys, and as a flat
\* mapping whose EQ keys have no suffix select the same records in filter,
\* count and exists of the in-memory, document-store and relational
\* backends.
C18_FormsSelectTheSame ==
  Queried =>
    \A f, g \in Forms :
      /\ SameSelection(ret.mem[f], ret.mem[g])
      /\ SameSelection(ret.tdb[f], ret.tdb[g])
      /\ SameSelection(ret.sql[f], ret.sql[g])

(***************************************************************************)
(* The null check of the document-store compiler (checked under SpecFilter)*)
(***************************************************************************)
\* the ids of the documents in which the field is absent or null
NullDocIds(table, column) ==
  { table[i]["id"] : i \in { j \in 1..Len(table) :
                               column \notin DOMAIN table[j] \/ table[j][column] = Null } }
AllDocIds(table) == { table[i]["id"] : i \in 1..Len(table) }

\* C19: in the document-store compiler, field__isnull with a true value
\* selects exactly the documents in which the field is absent or null, and
\* with a false value exactly those in which it is present and not null; the
\* two results are disjoint and cover the table.
C19_IsNullAbsentOrNull ==
  NullChecked =>
    /\ ~Raised(ret.tdb_isnull) /\ ~Raised(ret.tdb_notnull)
    /\ IdSet(ret.tdb_isnull.v.result) = NullDocIds(tdb_table, call.column)
    /\ IdSet(ret.tdb_notnull.v.result) = AllDocIds(tdb_table) \ NullDocIds(tdb_table, call.column)
    /\ IdSet(ret.tdb_isnull.v.result) \cap IdSet(ret.tdb_notnull.v.result) = {}
    /\ IdSet(ret.tdb_isnull.v.result) \cup IdSet(ret.tdb_notnull.v.result) = AllDocIds(tdb_table)

(***************************************************************************)
(* The fallback of the document-store filter (checked under SpecRead)      *)
(***************************************************************************)
\* what the in-memory evaluator selects among the table's records for the
\* conditions, followed by the ordering, cursor, offset and limit steps
\* (all at their defaults)
EvaluatorAnswer(table, preds) ==
  TinyDB_paginated(MatchAll(TinyDB_list_all(table), AsList(preds)), "", FALSE, Null, Null, Null)

\* C20: when compiling or running the native query of the document-store
\* filter fails, the call does not fail: it returns what the in-memory
\* evaluator selects for the specification among all records (whenever the
\* evaluator itself can evaluate these conditions).
C20_FallbackAnswers ==
  Queried =>
    \A f \in Forms :
      (/\ Raised(NativeItems(tdb_table, AsForm(f, call.preds)))
       /\ ~Raised(EvaluatorAnswer(tdb_table, call.preds)))
        => (/\ ~Raised(ret.tdb[f].filter)
            /\ ret.tdb[f].filter = EvaluatorAnswer(tdb_table, call.preds))

(***************************************************************************)
(* Atomic scopes (checked under Spec)                                      *)
(***************************************************************************)
\* the innermost scope was left by an exception
RolledBack == pc = "called" /\ call.op = "atomic"

\* C21: in the document-store backend a scope whose body raises leaves, on
\* exit, exactly the documents the table held when the scope was entered,
\* whatever create, update and delete calls were made inside it, and the
\* exception reaches the caller; a scope whose body completes keeps the table
\* as the body left it.
C21_RollbackRestoresTable ==
  [][/\ RolledBack' => /\ tdb_table' = Last(entered).tdb
                       /\ Raised(ret'.tdb)
     /\ (Len(entered') < Len(entered) /\ ~RolledBack') => tdb_table' = tdb_table]_vars

\* a scope was left by an exception after a write inside it had changed the table
C21_Witness ==
  /\ RolledBack
  /\ call.entry.tdb # <<>>
  /\ call.entry.mem # mem_store
  /\ tdb_table = call.entry.tdb

\* C22: in the in-memory and relational backends a scope whose body raises
\* leaves the persisted records equal to those at entry to the scope.
C22_RaisedScopeLeavesNoWrite ==
  RolledBack => /\ mem_store = call.entry.mem
                /\ sql_rows = call.entry.sql

(***************************************************************************)
(* The value codec of the relational backend (checked under SpecRead)      *)
(***************************************************************************)
Coded == pc = "called" /\ call.op = "codec"

\* the field came back from deserialize(serialize(...)) as it went in
RoundTrips(k) == /\ ~Raised(ret.decoded[k])
                 /\ ret.decoded[k].v = call.entity[k]

\* C23: deserialize(serialize(v)) equals v for every supported field value
\* (lists, datetimes, enumeration members, None, texts and integers), and no
\* decoding raises.
C23_CodecRoundTrips ==
  Coded => \A k \in DOMAIN call.entity : RoundTrips(k)

(***************************************************************************)
(* Schema synthesis (checked under SpecRead)                               *)
(***************************************************************************)
\* __init_subclass__ has just been run a second time for the same class
SynthesizedAgain == pc = "called" /\ call.op = "synthesize" /\ call.run = 2

\* C24: running schema synthesis a second time for the same declaration
\* raises no error and keeps the rows already stored in the table.
C24_SynthesisIdempotent ==
  (SynthesizedAgain /\ call.decl.table_name # Null)
    => /\ ~Raised(ret.out)
       /\ sql_rows = call.rows

(***************************************************************************)
(* Relational reads against the persisted rows (checked under SpecRead)    *)
(***************************************************************************)
\* the persisted records the evaluator selects for the specification asked
PersistedMatches == MatchAll(SmolORM_list_all(sql_rows).v, AsList(call.preds))

\* C25: in the relational backend filter, count and exists answer over the
\* persisted rows list_all returns: filter returns exactly the persisted
\* records matching the specification, exists is true exactly when there is
\* one, and count of the empty specification is the number of records
\* list_all returns.
C25_RelationalReadsPersistedRows ==
  (Queried /\ ~Raised(PersistedMatches)) =>
    /\ ~Raised(ret.sql["list"].filter)
    /\ ret.sql["list"].filter.v.result = PersistedMatches.v
    /\ ~Raised(ret.sql["list"].exists)
    /\ ret.sql["list"].exists.v = (PersistedMatches.v # <<>>)
    /\ call.preds = <<>> =>
         /\ ~Raised(ret.sql["list"].count)
         /\ ret.sql["list"].count.v = Len(SmolORM_list_all(sql_rows).v)

(***************************************************************************)
(* Ids of an instance opened over existing data (checked under SpecRead)   *)
(***************************************************************************)
Reopened == pc = "called" /\ call.op = "reopen"

\* n is greater than every id in ids, and 1 when there is none
AboveAll(n, ids) == /\ \A i \in ids : i.n < n
                    /\ (ids = {} => n = 1)
                    /\ (ids # {} => \E i \in ids : i.n + 1 = n)

\* every document of the table is still in the table after the step, and
\* every file still holds its record
NothingOverwritten ==
  /\ \A i \in 1..Len(tdb_table) : \E j \in 1..Len(tdb_table') : tdb_table'[j] = tdb_table[i]
  /\ \A k \in DOMAIN ls_files : k \in DOMAIN ls_files' /\ ls_files'[k] = ls_files[k]

\* C26: a document-store or file repository opened over existing data starts
\* assigning ids at max(existing ids) + 1 (1 when nothing is stored), and a
\* create never takes the id of a record stored at that moment nor overwrites
\* one, whatever creates and deletes (and reopenings) came before.
C26_ReopenedIdsAboveStored ==
  [][/\ Reopened' => /\ AboveAll(tdb_next_id', AllDocIds(tdb_table))
                     /\ AboveAll(ls_next_id', {IntV(k) : k \in DOMAIN ls_files})
     /\ Calls("create") =>
          /\ ret'.tdb.v["id"] \notin AllDocIds(tdb_table)
          /\ ret'.ls.v["id"].n \notin DOMAIN ls_files
          /\ NothingOverwritten]_vars

\* a create on an instance opened after the record with the same id had been
\* hard-deleted: the id is handed out a second time, to no stored record
C26_Witness ==
  /\ Created
  /\ ~Distinct(assigned.tdb)
  /\ Distinct(DocIds(tdb_table))
  /\ ret.ls.v["id"].n \in DOMAIN ls_files

(***************************************************************************)
(* The services of modules/backlog and modules/play_session, run over the  *)
(* in-memory repository and over the document store.  A repository is      *)
(* [data, next_id]; a repository call yields the repository after the call *)
(* and the outcome.  The entity classes are taken as the services          *)
(* construct them, by keyword, without id or timestamps.                   *)
(***************************************************************************)
\* service calls made in one behaviour
MaxServiceOps == 4

Repo_create(k, r, entity, now) ==
  IF k = "mem"
  THEN LET c == InMemory_create(r.data, r.next_id, entity, now) IN
       [repo |-> [data |-> c.store, next_id |-> c.next_id], out |-> c.out]
  ELSE LET c == TinyDB_create(r.data, r.next_id, entity, now) IN
       [repo |-> [data |-> c.table, next_id |-> c.next_id], out |-> c.out]

Repo_update(k, r, entity_id, patch, now) ==
  IF k = "mem"
  THEN LET c == InMemory_update(r.data, entity_id, patch, now) IN
       [repo |-> [r EXCEPT !.data = c.store], out |-> c.out]
  ELSE LET c == TinyDB_update(r.data, entity_id, patch, now) IN
       [repo |-> [r EXCEPT !.data = c.table], out |-> c.out]

\* delete(entity_id): soft defaults to False in both repositories
Repo_delete(k, r, entity_id, now) ==
  IF k = "mem"
  THEN LET c == InMemory_delete(r.data, entity_id, FALSE, now) IN
       [repo |-> [r EXCEPT !.data = c.store], out |-> c.out]
  ELSE LET c == TinyDB_delete(r.data, entity_id, FALSE, now) IN
       [repo |-> [r EXCEPT !.data = c.table], out |-> c.out]

Repo_get_by_id(k, r, entity_id) ==
  IF k = "mem" THEN InMemory_get_by_id(r.data, entity_id)
  ELSE TinyDB_get_by_id(r.data, entity_id)

Repo_list_all(k, r) ==
  IF k = "mem" THEN InMemory_list_all(r.data) ELSE TinyDB_list_all(r.data)

\* filter(filters=...): every other argument at its default
Repo_filter(k, r, filters) ==
  IF k = "mem" THEN InMemory_filter(r.data, filters, "", FALSE, Null, Null, Null)
  ELSE TinyDB_filter(r.data, filters, "", FALSE, Null, Null, Null)

\* list.append, "x in list" and list.remove (the first equal element)
ListAppend(lv, v) == [lv EXCEPT !.l = Append(@, Elem(v))]
ListHas(lv, v) == \E i \in 1..Len(lv.l) : lv.l[i] = Elem(v)
ListRemove(lv, v) ==
  [lv EXCEPT !.l = Without(@, CHOOSE i \in 1..Len(@) :
                                /\ @[i] = Elem(v)
                                /\ \A j \in 1..(i - 1) : @[j] # Elem(v))]

RepositoryBaseModel == [id |-> Null, created_at |-> Null, updated_at |-> Null]

GameBacklog(title, entries) ==
  Merge(RepositoryBaseModel, [title |-> title, entries |-> entries])

GameMetadata(title) ==
  Merge(RepositoryBaseModel,
        [title |-> title, description |-> StrV(<<>>), cover_url |-> StrV(<<>>),
         release_date |-> Null, developer |-> StrV(<<>>), publisher |-> StrV(<<>>),
         avg_completion_time |-> IntV(0), genres |-> ListV(<<>>), platforms |-> ListV(<<>>)])

GameBacklogEntry(meta_data, backlog, priority, status) ==
  Merge(RepositoryBaseModel,
        [meta_data |-> meta_data, backlog |-> backlog, priority |-> priority,
         status |-> status])

PlaySession(session_start, backlog_entry) ==
  Merge(RepositoryBaseModel,
        [session_start |-> session_start, session_end |-> Null,
         backlog_entry |-> backlog_entry])

(***************************************************************************)
(* GameBacklogService: each method yields the repositories after the call  *)
(* and the outcome                                                         *)
(***************************************************************************)
\* create_backlog(title, entries): GameBacklog(title=title, entries=entries or [])
create_backlog(k, rs, title, entries, now) ==
  LET c == Repo_create(k, rs.backlog,
                       GameBacklog(title, IF Truthy(entries) THEN entries ELSE ListV(<<>>)),
                       now)
  IN [rs |-> [rs EXCEPT !.backlog = c.repo], out |-> c.out]

create_game_metadata(k, rs, title, now) ==
  LET c == Repo_create(k, rs.metadata, GameMetadata(title), now) IN
  [rs |-> [rs EXCEPT !.metadata = c.repo], out |-> c.out]

\* the end of add_game_to_backlog, backlog found and entry created (c):
\* backlog.entries.append(entry.id), then the update of the backlog
LinkEntry(k, rs, backlog, c, now) ==
  [rs |-> [rs EXCEPT !.entry = c.repo,
                     !.backlog = Repo_update(k, rs.backlog, backlog["id"].n,
                                             [entries |-> ListAppend(backlog["entries"],
                                                                     c.out.v["id"])],
                                             now).repo],
   out |-> c.out]

add_game_to_backlog(k, rs, backlog_id, metadata_id, now) ==
  IF Repo_get_by_id(k, rs.backlog, backlog_id) = Null THEN [rs |-> rs, out |-> Raise("ValueError")]
  ELSE IF Repo_get_by_id(k, rs.metadata, metadata_id) = Null
  THEN [rs |-> rs, out |-> Raise("ValueError")]
  ELSE LinkEntry(k, rs, Repo_get_by_id(k, rs.backlog, backlog_id),
                 Repo_create(k, rs.entry,
                             GameBacklogEntry(IntV(metadata_id), IntV(backlog_id),
                                              EnumV(<<"P", "3">>), EnumV(<<"I">>)),
                             now),
                 now + 1)

\* backlog.entries.remove(entry_id) and the update, when the backlog is
\* stored and lists the entry
Unlinked(k, rs, backlog, entry_id, now) ==
  IF backlog # Null /\ ListHas(backlog["entries"], IntV(entry_id))
  THEN [rs EXCEPT !.backlog = Repo_update(k, rs.backlog, backlog["id"].n,
                                          [entries |-> ListRemove(backlog["entries"],
                                                                  IntV(entry_id))],
                                          now).repo]
  ELSE rs

\* entry_repo.delete(entry_id) over the repositories rs
EntryDeleted(k, rs, entry_id, now) ==
  [rs |-> [rs EXCEPT !.entry = Repo_delete(k, rs.entry, entry_id, now).repo],
   out |-> Repo_delete(k, rs.entry, entry_id, now).out]

\* a delete_entry that leaves the backlog's entries as they are
delete_entry_without_unlink(k, rs, entry_id, now) ==
  IF Repo_get_by_id(k, rs.entry, entry_id) = Null
     \/ Repo_get_by_id(k, rs.entry, entry_id)["backlog"] = Null
  THEN [rs |-> rs, out |-> Ret(FALSE)]
  ELSE EntryDeleted(k, rs, entry_id, now + 1)

delete_entry(k, rs, entry_id, now) ==
  IF Repo_get_by_id(k, rs.entry, entry_id) = Null
     \/ Repo_get_by_id(k, rs.entry, entry_id)["backlog"] = Null
  THEN [rs |-> rs, out |-> Ret(FALSE)]
  ELSE EntryDeleted(k,
                    Unlinked(k, rs,
                             Repo_get_by_id(k, rs.backlog,
                                            Repo_get_by_id(k, rs.entry, entry_id)["backlog"].n),
                             entry_id, now),
                    entry_id, now + 1)

\* for entry_id in backlog.entries: entry_repo.delete(entry_id)
RECURSIVE DeleteEach(_, _, _, _)
DeleteEach(k, r, ids, now) ==
  IF ids = <<>> THEN r
  ELSE DeleteEach(k, Repo_delete(k, r, ids[1].n, now).repo, Tail(ids), now)

\* the end of delete_backlog, backlog found
Cascade(k, rs, backlog, now) ==
  [rs |-> [rs EXCEPT !.entry = DeleteEach(k, rs.entry, backlog["entries"].l, now),
                     !.backlog = Repo_delete(k, rs.backlog, backlog["id"].n, now).repo],
   out |-> Repo_delete(k, rs.backlog, backlog["id"].n, now).out]

delete_backlog(k, rs, backlog_id, now) ==
  IF Repo_get_by_id(k, rs.backlog, backlog_id) = Null THEN [rs |-> rs, out |-> Ret(FALSE)]
  ELSE Cascade(k, rs, Repo_get_by_id(k, rs.backlog, backlog_id), now)

(***************************************************************************)
(* PlaySessionService                                                      *)
(***************************************************************************)
\* start_session(backlog_entry)
start_session(k, rs, backlog_entry, now) ==
  LET c == Repo_create(k, rs.session, PlaySession(DtV(now), IntV(backlog_entry)), now + 1)
  IN [rs |-> [rs EXCEPT !.session = c.repo], out |-> c.out]

\* the end of stop_session, session found: session_end = now, then update
Stopped(k, rs, session, session_id, now) ==
  LET c == Repo_update(k, rs.session, session_id,
                       [session_start |-> session["session_start"],
                        session_end |-> DtV(now)],
                       now + 1)
  IN [rs |-> [rs EXCEPT !.session = c.repo], out |-> c.out]

stop_session(k, rs, session_id, now) ==
  IF Repo_get_by_id(k, rs.session, session_id) = Null
  THEN [rs |-> rs, out |-> Raise("PlaySessionError")]
  ELSE Stopped(k, rs, Repo_get_by_id(k, rs.session, session_id), session_id, now)

\* .result of a filter outcome
ResultOf(found) == IF Raised(found) THEN found ELSE Ret(found.v.result)

\* get_active_sessions: filter(filters={"session_end__isnull": ""}).result
get_active_sessions(k, rs) ==
  ResultOf(Repo_filter(k, rs.session,
                       DictSpec(<<FilterQuery("session_end", "isnull", StrV(<<>>))>>)))

(***************************************************************************)
(* Service calls: one call is made against the services of every backend   *)
(***************************************************************************)
\* the titles, entries, ids and backlog entries handed to the services
Titles == {StrV(<<"a">>)}
EntriesArgs == {Null, ListV(<<IntV(1)>>)}
BacklogIds == 1..2
MetadataIds == 1..2
EntryIds == 1..2
SessionIds == 1..2

\* the call c with result res[k] over the services of backend k
Serve(c, res) ==
  /\ pc = "idle" /\ ops < MaxServiceOps
  /\ svc' = [k \in Kinds |-> res[k].rs]
  /\ call' = Merge(c, [before |-> svc])
  /\ ret' = [op |-> c.op, mem |-> res["mem"].out, tdb |-> res["tdb"].out]
  /\ ops' = ops + 1 /\ clock' = clock + 2 /\ pc' = "called"
  /\ UNCHANGED <<mem_store, mem_next_id, tdb_table, tdb_next_id, tdb_backups, entered,
                 sql_rows, sql_seq, ls_files, ls_next_id, assigned, pg>>

CreateBacklog(title, entries) ==
  /\ Serve([op |-> "create_backlog", title |-> title, entries |-> entries],
           [k \in Kinds |-> create_backlog(k, svc[k], title, entries, clock + 1)])
  /\ supplied' = (supplied \/ Truthy(entries))

CreateGameMetadata(title) ==
  /\ Serve([op |-> "create_game_metadata", title |-> title],
           [k \in Kinds |-> create_game_metadata(k, svc[k], title, clock + 1)])
  /\ UNCHANGED supplied

AddGameToBacklog(backlog_id, metadata_id) ==
  /\ Serve([op |-> "add_game_to_backlog", backlog_id |-> backlog_id,
            metadata_id |-> metadata_id],
           [k \in Kinds |-> add_game_to_backlog(k, svc[k], backlog_id, metadata_id,
                                                clock + 1)])
  /\ UNCHANGED supplied

DeleteEntry(entry_id) ==
  /\ Serve([op |-> "delete_entry", entry_id |-> entry_id],
           [k \in Kinds |-> delete_entry(k, svc[k], entry_id, clock + 1)])
  /\ UNCHANGED supplied

DeleteBacklog(backlog_id) ==
  /\ Serve([op |-> "delete_backlog", backlog_id |-> backlog_id],
           [k \in Kinds |-> delete_backlog(k, svc[k], backlog_id, clock + 1)])
  /\ UNCHANGED supplied

StartSession(backlog_entry) ==
  /\ Serve([op |-> "start_session", backlog_entry |-> backlog_entry],
           [k \in Kinds |-> start_session(k, svc[k], backlog_entry, clock + 1)])
  /\ UNCHANGED supplied

StopSession(session_id) ==
  /\ Serve([op |-> "stop_session", session_id |-> session_id],
           [k \in Kinds |-> stop_session(k, svc[k], session_id, clock + 1)])
  /\ UNCHANGED supplied

GetActiveSessions ==
  /\ pc = "idle"
  /\ call' = [op |-> "get_active_sessions", before |-> svc]
  /\ ret' = [op |-> "get_active_sessions",
             mem |-> get_active_sessions("mem", svc["mem"]),
             tdb |-> get_active_sessions("tdb", svc["tdb"])]
  /\ pc' = "called"
  /\ UNCHANGED <<stores, pg>>

NextService ==
  \/ \E t \in Titles, e \in EntriesArgs : CreateBacklog(t, e)
  \/ \E t \in Titles : CreateGameMetadata(t)
  \/ \E b \in BacklogIds, m \in MetadataIds : AddGameToBacklog(b, m)
  \/ \E e \in EntryIds : DeleteEntry(e)
  \/ \E b \in BacklogIds : DeleteBacklog(b)
  \/ \E e \in EntryIds : StartSession(e)
  \/ \E s \in SessionIds : StopSession(s)
  \/ GetActiveSessions
  \/ Ack

SpecService == Init /\ [][NextService]_vars

(***************************************************************************)
(* C27: the references between backlogs and entries                        *)
(***************************************************************************)
\* every id in a stored backlog's entries names a stored entry whose
\* backlog field is that backlog
Consistent(k, rs) ==
  \A i \in 1..Len(Repo_list_all(k, rs.backlog)) :
    \A j \in 1..Len(Repo_list_all(k, rs.backlog)[i]["entries"].l) :
      /\ Repo_get_by_id(k, rs.entry, Repo_list_all(k, rs.backlog)[i]["entries"].l[j].n) # Null
      /\ Repo_get_by_id(k, rs.entry,
                        Repo_list_all(k, rs.backlog)[i]["entries"].l[j].n)["backlog"]
           = Repo_list_all(k, rs.backlog)[i]["id"]

\* delete_backlog(b) returned True: b and every entry b listed are gone and
\* the metadata repository is as it was
Cascaded(k) ==
  ret[k] = Ret(TRUE) =>
    /\ Repo_get_by_id(k, svc[k].backlog, call.backlog_id) = Null
    /\ \A j \in 1..Len(Repo_get_by_id(k, call.before[k].backlog, call.backlog_id)["entries"].l) :
         Repo_get_by_id(k, svc[k].entry,
                        Repo_get_by_id(k, call.before[k].backlog,
                                       call.backlog_id)["entries"].l[j].n) = Null
    /\ svc[k].metadata = call.before[k].metadata

\* delete_entry(e) returned True: e is gone and no stored backlog lists it
Unlisted(k) ==
  ret[k] = Ret(TRUE) =>
    /\ Repo_get_by_id(k, svc[k].entry, call.entry_id) = Null
    /\ \A i \in 1..Len(Repo_list_all(k, svc[k].backlog)) :
         ~ListHas(Repo_list_all(k, svc[k].backlog)[i]["entries"], IntV(call.entry_id))

ReferencesKept ==
  \A k \in Kinds :
    /\ Consistent(k, svc[k])
    /\ pc = "called" /\ call.op = "delete_backlog" => Cascaded(k)
    /\ pc = "called" /\ call.op = "delete_entry" => Unlisted(k)

IdsOf(entities) == {entities[i]["id"].n : i \in 1..Len(entities)}

\* the stored sessions that were started and not stopped
ActiveIds(k, rs) ==
  {Repo_list_all(k, rs.session)[i]["id"].n :
     i \in {j \in 1..Len(Repo_list_all(k, rs.session)) :
              Repo_list_all(k, rs.session)[j]["session_end"] = Null}}

\* C28: get_active_sessions returns exactly the sessions started and not yet
\* stopped, and stop_session on an unknown session id raises
\* PlaySessionError and performs no update
C28_ActiveSessionsExact ==
  \A k \in Kinds :
    /\ pc = "called" /\ call.op = "get_active_sessions" =>
         /\ ~Raised(ret[k])
         /\ IdsOf(ret[k].v) = ActiveIds(k, svc[k])
    /\ (/\ pc = "called" /\ call.op = "stop_session"
        /\ Repo_get_by_id(k, call.before[k].session, call.session_id) = Null) =>
         /\ ret[k] = Raise("PlaySessionError")
         /\ svc[k] = call.before[k]

(***************************************************************************)
(* C29: ordering removes the records without a key                         *)
(***************************************************************************)
Ordering ==
  /\ pc = "called" /\ call.op = "page" /\ call.order_by # ""
  /\ call.limit = Null /\ call.offset = Null /\ call.cursor = Null

\* the records among entities that match preds and have a non-null f
KeyedMatches(entities, preds, f) ==
  SelectSeq(MatchAll(entities, AsList(preds)).v, LAMBDA e : Getattr(e, f) # Null)

\* neighbours are in key order, reversed when descending
InKeyOrder(result, f, descending) ==
  \A i \in 1..(Len(result) - 1) :
    IF descending THEN ~PyLt(Getattr(result[i], f), Getattr(result[i + 1], f)).v
    ELSE ~PyLt(Getattr(result[i + 1], f), Getattr(result[i], f)).v

\* r is the page of exactly the keyed matches, in key order, total counting
\* them
ExactlyKeyed(r, entities, preds, f, descending) ==
  /\ ~Raised(r)
  /\ Len(r.v.result) = Len(KeyedMatches(entities, preds, f))
  /\ {r.v.result[i] : i \in 1..Len(r.v.result)}
       = {KeyedMatches(entities, preds, f)[i] : i \in 1..Len(KeyedMatches(entities, preds, f))}
  /\ InKeyOrder(r.v.result, f, descending)
  /\ r.v.total = Len(r.v.result)

\* C29: filter(spec, order_by=f) returns exactly the matching records with a
\* non-null f, sorted by f (reversed when descending), and total counts
\* those records only
C29_OrderByDropsNullKeys ==
  Ordering =>
    /\ ExactlyKeyed(ret.mem, InMemory_list_all(mem_store), call.preds, call.order_by,
                    call.descending)
    /\ ExactlyKeyed(ret.tdb, TinyDB_list_all(tdb_table), call.preds, call.order_by,
                    call.descending)

\* an ordered call whose total is smaller than count(spec), with two
\* records left to put in order
C29_Witness ==
  /\ Ordering /\ call.order_by = "score"
  /\ Len(ret.mem.v.result) = 2 /\ ret.mem.v.total < ret.mem_count.v
  /\ Len(ret.tdb.v.result) = 2 /\ ret.tdb.v.total < ret.tdb_count.v
  /\ ret.mem.v.result[1]["score"] # ret.mem.v.result[2]["score"]

(***************************************************************************)
(* The ORM builder as a chain of calls.  The accumulated text _sql is the  *)
(* sequence of its clauses; _where is Null or the id compared by           *)
(* col("id") == id.                                                        *)
(***************************************************************************)
\* builder calls made in one chain
MaxChain == 3

\* ORM.from_(table_name)
ORM_from_(table_name) == [table |-> table_name, where |-> Null, sql |-> <<>>]

\* select(): _sql += "SELECT * FROM table"
ORM_select(obj) == [obj EXCEPT !.sql = Append(@, [clause |-> "SELECT", arg |-> 0])]

\* order_by(column, descending): _sql += " ORDER BY column ASC|DESC"
ORM_order_by(obj, descending) ==
  [obj EXCEPT !.sql = Append(@, [clause |-> "ORDER BY", arg |-> IF descending THEN 1 ELSE 0])]

\* limit(n): _sql += " LIMIT n"
ORM_limit(obj, n) == [obj EXCEPT !.sql = Append(@, [clause |-> "LIMIT", arg |-> n])]

\* offset(n): _sql += " OFFSET n"
ORM_offset(obj, n) == [obj EXCEPT !.sql = Append(@, [clause |-> "OFFSET", arg |-> n])]

\* one builder call m on obj
Called(obj, m) ==
  CASE m.m = "select" -> ORM_select(obj)
    [] m.m = "where" -> ORM_where(obj, m.arg)
    [] m.m = "order_by" -> ORM_order_by(obj, m.arg = 1)
    [] m.m = "limit" -> ORM_limit(obj, m.arg)
    [] OTHER -> ORM_offset(obj, m.arg)

RECURSIVE CalledAll(_, _)
CalledAll(obj, chain) ==
  IF chain = <<>> THEN obj ELSE CalledAll(Called(obj, chain[1]), Tail(chain))

\* the head of run(): if self._where: _sql += " WHERE ..."
SqlText(obj) ==
  IF obj.where # Null THEN Append(obj.sql, [clause |-> "WHERE", arg |-> obj.where.n])
  ELSE obj.sql

\* the engine's grammar of a SELECT statement:
\* SELECT ... FROM t [WHERE e] [ORDER BY c] [LIMIT n [OFFSET m]]
ClauseRank(c) ==
  CASE c = "SELECT" -> 1 [] c = "WHERE" -> 2 [] c = "ORDER BY" -> 3 [] c = "LIMIT" -> 4
    [] OTHER -> 5

Parses(sqltext) ==
  /\ sqltext # <<>> /\ sqltext[1].clause = "SELECT"
  /\ \A i \in 1..(Len(sqltext) - 1) :
       ClauseRank(sqltext[i].clause) < ClauseRank(sqltext[i + 1].clause)
  /\ \A i \in 1..Len(sqltext) :
       sqltext[i].clause = "OFFSET" => i > 1 /\ sqltext[i - 1].clause = "LIMIT"

\* the rows a statement that parses selects: WHERE, then ORDER BY, then
\* OFFSET and LIMIT
RECURSIVE SelectedRows(_, _, _)
SelectedRows(rows, sqltext, i) ==
  IF i > Len(sqltext) THEN rows
  ELSE SelectedRows(CASE sqltext[i].clause = "WHERE" ->
                       SelectSeq(rows, LAMBDA r : RowMatches(r, IntV(sqltext[i].arg)))
                  [] sqltext[i].clause = "ORDER BY" ->
                       SortBy(rows, "id", sqltext[i].arg = 1)
                  [] sqltext[i].clause = "LIMIT" ->
                       UpTo(IF i < Len(sqltext)
                            THEN AfterOffset(rows, IntV(sqltext[i + 1].arg)) ELSE rows,
                            IntV(sqltext[i].arg))
                  [] OTHER -> rows,
                sqltext, i + 1)

\* the try block of run(): the rows of the executed text, [] when the
\* engine rejects it
Run(obj, rows) ==
  IF Parses(SqlText(obj)) THEN SelectedRows(rows, SqlText(obj), 1) ELSE <<>>

\* the builder calls of a chain and the chains of distinct calls
BuilderCalls ==
  {[m |-> "select", arg |-> 0], [m |-> "where", arg |-> 1], [m |-> "order_by", arg |-> 0],
   [m |-> "order_by", arg |-> 1], [m |-> "limit", arg |-> 1], [m |-> "offset", arg |-> 1]}

Chains ==
  UNION {{c \in [1..n -> BuilderCalls] : \A i, j \in 1..n : i # j => c[i].m # c[j].m} :
           n \in 1..MaxChain}

\* ORM.from_(table) followed by the calls of chain, then run()
Chain(chain) ==
  /\ pc = "idle"
  /\ call' = [op |-> "chain", chain |-> chain, rows |-> sql_rows]
  /\ ret' = [op |-> "chain", text |-> SqlText(CalledAll(ORM_from_("t"), chain)),
             sql |-> Run(CalledAll(ORM_from_("t"), chain), sql_rows)]
  /\ pc' = "called"
  /\ UNCHANGED <<stores, pg>>

NextBuilder ==
  \/ \E f \in InsertFields : Insert(f)
  \/ \E c \in Chains : Chain(c)
  \/ Ack

SpecBuilder == Init /\ [][NextBuilder]_vars

(***************************************************************************)
(* C30: the order of the clauses in the text run() executes                *)
(***************************************************************************)
Chained == pc = "called" /\ call.op = "chain"
Has(chain, m) == \E i \in 1..Len(chain) : chain[i].m = m
ClauseAt(sqltext, c) == {i \in 1..Len(sqltext) : sqltext[i].clause = c}

\* C30: whatever order select, where, order_by, limit and offset were called
\* in, the WHERE clause of the executed text comes directly after the FROM
\* table and before any ORDER BY, LIMIT or OFFSET clause, and a where() call
\* takes effect: the statement is executed and returns the rows the
\* condition selects
C30_ClausesInSqlOrder ==
  Chained /\ Has(call.chain, "select") /\ Has(call.chain, "where") =>
    /\ \A w \in ClauseAt(ret.text, "WHERE") :
         /\ w > 1 /\ ret.text[w - 1].clause = "SELECT"
         /\ \A i \in 1..Len(ret.text) :
              ret.text[i].clause \in {"ORDER BY", "LIMIT", "OFFSET"} => w < i
    /\ ClauseAt(ret.text, "WHERE") # {}
    /\ Parses(ret.text)

=============================================================================
